---- MODULE Spec2Model ----
(***************************************************************************)
(* A model of the acid/centidb native extension: the order-preserving key  *)
(* codec (src/ext/keylib.c), the KeyList splitter (src/ext/keylist.c), Key  *)
(* comparison (src/ext/key.c) and the RangeIterator state machine          *)
(* (src/ext/iterators.c).                                                  *)
(*                                                                         *)
(* Bytes are the integers 0..255; a byte string is a sequence of bytes.    *)
(* A C pointer that may be NULL is a sequence of length <= 1: <<>> is NULL  *)
(* and <<x>> points to x.  A reader position is the number of bytes that    *)
(* lie before it, so the next byte read at position p is s[p + 1].         *)
(***************************************************************************)
EXTENDS Integers, Sequences, FiniteSets, TLC

VARIABLES
    \* ---- the engine ----
    records,    \* the items the engine holds, in key order:
                \* [pair |-> BOOLEAN, key |-> bytes]
    \* ---- RangeIterator (struct Iterator, src/ext/acid.h:207-232) ----
    engine,     \* self->engine: <<"engine">>, or <<>> once iter_clear() ran
    prefix,     \* self->prefix: <<bytes>>, or <<>> once iter_clear() ran
    lo,         \* self->lo: [key |-> <<>> or <<bytes>>, pred |-> Predicate]
    hi,         \* self->hi
    stop,       \* self->stop: "none" (NULL), "lo" (&self->lo) or "hi" (&self->hi)
    max,        \* self->max
    it,         \* self->it: <<>> or <<the items the engine iterator still holds>>
    tup,        \* self->tup: <<>> or <<the last item pulled>>
    started,    \* self->started
    keys,       \* self->keys: <<>> or <<list of Keys>>
    \* ---- the caller ----
    pc,         \* "config", "running", "halted" (next() returned NULL) or
                \* "crashed" (a NULL pointer was dereferenced)
    dir,        \* the direction chosen: "none", "forward" or "reverse"
    origin,     \* the setter each bound comes from: [lo |-> ..., hi |-> ...]
    cfg,        \* lo, hi, max and origin as forward()/reverse() found them
    yielded,    \* the items next() returned, in order
    ret,        \* what the last call returned: "None", "self" or "NULL"
    exc,        \* the pending Python exception: "none" or its type
    \* ---- codec calls (pure functions applied to chosen inputs) ----
    call,       \* a codec call: its name, its arguments and its result
    \* ---- Shared Keys and their source (src/ext/key.c, src/ext/memsink.h) ----
    skeys,      \* the Keys made by acid_make_shared_key, by address
    sink_head,  \* the source's list head: NULL or the address of a sink
    gen,        \* how many times the source's memory has changed
    notified,   \* ms_notify() has returned and the memory has not changed yet
    spc         \* "ok", or "crashed" (wild pointer, failed assert)

ivars == <<records, engine, prefix, lo, hi, stop, max, it, tup, started, keys,
           pc, dir, origin, cfg, yielded, ret, exc>>
svars == <<skeys, sink_head, gen, notified, spc>>
vars == <<records, engine, prefix, lo, hi, stop, max, it, tup, started, keys,
          pc, dir, origin, cfg, yielded, ret, exc, call,
          skeys, sink_head, gen, notified, spc>>

----------------------------------------------------------------------------
(* enum ElementKind *)
KIND_NULL == 15
KIND_NEG_INTEGER == 20
KIND_INTEGER == 21
KIND_BOOL == 30
KIND_BLOB == 40
KIND_TEXT == 50
KIND_UUID == 90
KIND_NEG_TIME == 91
KIND_TIME == 92
KIND_SEP == 102

(* The bits of a byte, and the C operators on uint8_t that the codec uses. *)
Pow2(n) == 2 ^ n

Bit(x, i) == (x \div Pow2(i)) % 2

\* a | b on bytes
BitOr(a, b) ==
    LET m(i) == IF Bit(a, i) = 1 \/ Bit(b, i) = 1 THEN Pow2(i) ELSE 0
    IN m(0) + m(1) + m(2) + m(3) + m(4) + m(5) + m(6) + m(7)

\* A writer and reader that leave the bytes of a negative integer as they are
BitXor_dropped(xor, b) == b

\* xor ^ b, where xor is 0 or 0xff
BitXor(xor, b) == IF xor = 0 THEN b ELSE 255 - b

\* (uint8_t) (x << n)
Shl8(x, n) == (x * Pow2(n)) % 256

\* x >> n
Shr(x, n) == x \div Pow2(n)

----------------------------------------------------------------------------
(* Elements.  A tuple element is a record: [t |-> "null"], [t |-> "int",   *)
(* v |-> n], [t |-> "bool", v |-> b] or [t |-> "blob", v |-> bytes].        *)

ENull == [t |-> "null"]
EInt(n) == [t |-> "int", v |-> n]
EBool(b) == [t |-> "bool", v |-> b]
EBlob(s) == [t |-> "blob", v |-> s]
\* A unicode string is the sequence of its code points
EText(u) == [t |-> "text", v |-> u]
\* A UUID is its 16 bytes
EUuid(s) == [t |-> "uuid", v |-> s]
\* A datetime is its instant, in milliseconds since 1970 UTC, and its UTC
\* offset in seconds
ETime(ms, offset_secs) == [t |-> "time", ms |-> ms, offset_secs |-> offset_secs]

\* Granularity of the UTC offset, and what is added to it after division
UTCOFFSET_DIV == 900
UTCOFFSET_SHIFT == 64

\* PyUnicode_EncodeUTF8 of code points below 0x10000
RECURSIVE EncodeUTF8(_)
EncodeUTF8(u) ==
    IF u = <<>> THEN <<>>
    ELSE LET c == Head(u)
             b == IF c < 128 THEN <<c>>
                  ELSE IF c < 2048 THEN <<192 + (c \div 64), 128 + (c % 64)>>
                  ELSE <<224 + (c \div 4096), 128 + ((c \div 64) % 64),
                         128 + (c % 64)>>
         IN  b \o EncodeUTF8(Tail(u))

\* PyUnicode_DecodeUTF8(s, "strict") of sequences of up to three bytes:
\* [ok |-> BOOLEAN, u |-> code points]
RECURSIVE DecodeUTF8(_)
DecodeUTF8(s) ==
    IF s = <<>> THEN [ok |-> TRUE, u |-> <<>>]
    ELSE
        LET b == s[1]
            cont(i) == i <= Len(s) /\ s[i] >= 128 /\ s[i] < 192
            n == IF b < 128 THEN 1
                 ELSE IF b >= 194 /\ b < 224 /\ cont(2) THEN 2
                 ELSE IF b >= 224 /\ b < 240 /\ cont(2) /\ cont(3)
                         /\ (b > 224 \/ s[2] >= 160) THEN 3
                 ELSE 0
            c == IF n = 1 THEN b
                 ELSE IF n = 2 THEN (b - 192) * 64 + (s[2] - 128)
                 ELSE (b - 224) * 4096 + (s[2] - 128) * 64 + (s[3] - 128)
        IN  IF n = 0 THEN [ok |-> FALSE, u |-> <<>>]
            ELSE LET r == DecodeUTF8(SubSeq(s, n + 1, Len(s)))
                 IN  [ok |-> r.ok, u |-> IF r.ok THEN <<c>> \o r.u ELSE <<>>]

\* write_int without the offset of the two-byte class
write_int_unbiased(v, kind, xor) ==
    LET k == IF kind # 0 THEN <<kind>> ELSE <<>>
    IN  IF v <= 240 THEN k \o <<BitXor(xor, v)>>
        ELSE IF v <= 2287 THEN
            k \o <<BitXor(xor, 241 + Shr(v, 8)), BitXor(xor, v % 256)>>
        ELSE IF v <= 67823 THEN
            LET w == v - 2288
            IN  k \o <<BitXor(xor, 249), BitXor(xor, Shr(w, 8) % 256),
                       BitXor(xor, w % 256)>>
        ELSE
            LET b24 == IF v > 16777215 THEN <<BitXor(xor, Shr(v, 24) % 256)>>
                       ELSE <<>>
                type == 250 + Len(b24)
            IN  k \o <<BitXor(xor, type)>> \o b24
                  \o <<BitXor(xor, Shr(v, 16) % 256),
                       BitXor(xor, Shr(v, 8) % 256),
                       BitXor(xor, v % 256)>>

\* The varint writer.  v is below 2^31 here, so of the five conditional
\* high bytes of the 0xfa..0xff class only the one for v > 0xffffff can be taken.
write_int(v, kind, xor) ==
    LET k == IF kind # 0 THEN <<kind>> ELSE <<>>
    IN  IF v <= 240 THEN k \o <<BitXor(xor, v)>>
        ELSE IF v <= 2287 THEN
            LET w == v - 240
            IN  k \o <<BitXor(xor, 241 + Shr(w, 8)), BitXor(xor, w % 256)>>
        ELSE IF v <= 67823 THEN
            LET w == v - 2288
            IN  k \o <<BitXor(xor, 249), BitXor(xor, Shr(w, 8) % 256),
                       BitXor(xor, w % 256)>>
        ELSE
            LET b24 == IF v > 16777215 THEN <<BitXor(xor, Shr(v, 24) % 256)>>
                       ELSE <<>>
                type == 250 + Len(b24)
            IN  k \o <<BitXor(xor, type)>> \o b24
                  \o <<BitXor(xor, Shr(v, 16) % 256),
                       BitXor(xor, Shr(v, 8) % 256),
                       BitXor(xor, v % 256)>>

\* The loop of write_str: the bytes written for p[i..], entered with the
\* current shift and trailer.
RECURSIVE write_str_loop(_, _, _, _)
write_str_loop(p, i, shift, trailer) ==
    IF i > Len(p) THEN
        IF shift > 1 THEN <<BitOr(128, trailer)>> ELSE <<>>
    ELSE
        LET o == p[i]
            first == BitOr(BitOr(128, trailer), Shr(o, shift))
        IN  IF shift < 7
            THEN <<first>> \o write_str_loop(p, i + 1, shift + 1, Shl8(o, 7 - shift))
            ELSE <<first, BitOr(128, o)>> \o write_str_loop(p, i + 1, 1, 0)

\* write_str without the kind
write_str_untagged(p, kind) == write_str_loop(p, 1, 1, 0)

write_str(p, kind) ==
    (IF kind # 0 THEN <<kind>> ELSE <<>>) \o write_str_loop(p, 1, 1, 0)

\* a / b on C integers, b > 0: the quotient truncated towards zero
CDiv(a, b) == IF a >= 0 THEN a \div b ELSE 0 - ((0 - a) \div b)

\* write_time with one tag for both signs
write_time_one_tag(dt) ==
    LET offset_bits == UTCOFFSET_SHIFT + CDiv(dt.offset_secs, UTCOFFSET_DIV)
        ts == dt.ms * 128 + offset_bits
    IN  IF ts < 0 THEN write_int(-ts, KIND_TIME, 255)
        ELSE write_int(ts, KIND_TIME, 0)

\* write_time(wtr, dt): ts is the instant in seconds, then in milliseconds,
\* then (ts << 7) | offset_bits, which is ts * 128 + offset_bits as
\* offset_bits is in 0..127
write_time(dt) ==
    LET offset_bits == UTCOFFSET_SHIFT + CDiv(dt.offset_secs, UTCOFFSET_DIV)
        ts == dt.ms * 128 + offset_bits
    IN  IF ts < 0 THEN write_int(-ts, KIND_NEG_TIME, 255)
        ELSE write_int(ts, KIND_TIME, 0)

acid_write_element(arg) ==
    IF arg.t = "null" THEN <<KIND_NULL>>
    ELSE IF arg.t = "int" THEN
        IF arg.v < 0 THEN write_int(-arg.v, KIND_NEG_INTEGER, 255)
        ELSE write_int(arg.v, KIND_INTEGER, 0)
    ELSE IF arg.t = "blob" THEN write_str(arg.v, KIND_BLOB)
    ELSE IF arg.t = "text" THEN write_str(EncodeUTF8(arg.v), KIND_TEXT)
    ELSE IF arg.t = "time" THEN write_time(arg)
    ELSE IF arg.t = "uuid" THEN <<KIND_UUID>> \o arg.v
    ELSE \* bool
        <<KIND_BOOL, IF arg.v THEN 1 ELSE 0>>

RECURSIVE write_tuple_from(_, _)
write_tuple_from(tup_, i) ==
    IF i > Len(tup_) THEN <<>>
    ELSE acid_write_element(tup_[i]) \o write_tuple_from(tup_, i + 1)

write_tuple(tup_) == write_tuple_from(tup_, 1)

\* py_packs: the loop over a list of tuples, KIND_SEP between them
RECURSIVE py_packs_from(_, _)
py_packs_from(tups, i) ==
    IF i > Len(tups) THEN <<>>
    ELSE (IF i > 1 THEN <<KIND_SEP>> ELSE <<>>) \o write_tuple(tups[i])
           \o py_packs_from(tups, i + 1)

\* py_packs(tups, prefix), tups a list ([list |-> TRUE, v |-> tuples]) or a
\* single tuple ([list |-> FALSE, v |-> tuple])
py_packs(tups, pfx) ==
    IF tups.list THEN pfx \o py_packs_from(tups.v, 1)
    ELSE pfx \o write_tuple(tups.v)

----------------------------------------------------------------------------
(* Decoding.  A reader is the buffer s with a position p; rdr->e is Len(s). *)

\* read_plain_int: [ret |-> 0 or -1, v |-> the value, p |-> the new position]
read_plain_int(s, p, xor) ==
    IF ~(p < Len(s)) THEN [ret |-> -1, v |-> 0, p |-> p]
    ELSE
        LET ch == BitXor(xor, s[p + 1])
            q == p + 1
            remain == Len(s) - q
            at(i) == BitXor(xor, s[q + i])
        IN  IF ch <= 240 THEN [ret |-> 0, v |-> ch, p |-> q]
            ELSE IF ch <= 248 THEN
                IF remain < 1 THEN [ret |-> -1, v |-> 0, p |-> q]
                ELSE [ret |-> 0, v |-> 240 + 256 * (ch - 241) + at(1), p |-> q + 1]
            ELSE IF ch = 249 THEN
                IF remain < 2 THEN [ret |-> -1, v |-> 0, p |-> q]
                ELSE [ret |-> 0, v |-> 2288 + 256 * at(1) + at(2), p |-> q + 2]
            ELSE
                LET n == 8 - (255 - ch)
                IN  IF remain < n THEN [ret |-> -1, v |-> 0, p |-> q]
                    ELSE IF ch = 250 THEN
                        [ret |-> 0, v |-> 65536 * at(1) + 256 * at(2) + at(3),
                         p |-> q + 3]
                    ELSE IF ch = 251 /\ at(1) < 128 THEN
                        [ret |-> 0,
                         v |-> 16777216 * at(1) + 65536 * at(2) + 256 * at(3) + at(4),
                         p |-> q + 4]
                    ELSE \* a value of 2^31 or more: beyond the integers modelled
                        [ret |-> 0, v |-> -1, p |-> q + n]

\* A read_int that forgets to negate
read_int_unsigned(s, p, negate, xor) ==
    LET r == read_plain_int(s, p, xor)
    IN  IF r.ret # 0 THEN [ok |-> FALSE, val |-> ENull, p |-> r.p]
        ELSE [ok |-> TRUE, val |-> EInt(r.v), p |-> r.p]

\* read_int: [ok |-> BOOLEAN, val |-> element, p |-> position]
read_int(s, p, negate, xor) ==
    LET r == read_plain_int(s, p, xor)
    IN  IF r.ret # 0 THEN [ok |-> FALSE, val |-> ENull, p |-> r.p]
        ELSE [ok |-> TRUE, val |-> EInt(IF negate THEN -r.v ELSE r.v), p |-> r.p]

\* The loop of read_str, entered after the first byte lb was read.
RECURSIVE read_str_loop(_, _, _, _, _)
read_str_loop(s, p, lb, shift, out) ==
    IF ~(p < Len(s)) THEN [val |-> out, p |-> p]
    ELSE
        LET cb == s[p + 1]
            q == p + 1
        IN  IF cb < 128 THEN [val |-> out, p |-> q - 1]
            ELSE
                LET ch == BitOr(Shl8(lb, shift), Shr(cb % 128, 7 - shift))
                    out2 == Append(out, ch)
                IN  IF shift < 7 THEN read_str_loop(s, q, cb, shift + 1, out2)
                    ELSE IF ~(q < Len(s)) THEN [val |-> out2, p |-> q]
                    ELSE IF s[q + 1] < 128 THEN [val |-> out2, p |-> q]
                    ELSE read_str_loop(s, q + 1, s[q + 1], 1, out2)

\* read_str: [val |-> bytes, p |-> position]
read_str(s, p) ==
    IF p = Len(s) THEN [val |-> <<>>, p |-> p]
    ELSE IF s[p + 1] < 128 THEN [val |-> <<>>, p |-> p]
    ELSE read_str_loop(s, p + 1, s[p + 1], 1, <<>>)

\* read_time: [ok |-> BOOLEAN, val |-> element, p |-> position]
read_time(s, p, kind) ==
    LET r == read_plain_int(s, p, IF kind = KIND_NEG_TIME THEN 255 ELSE 0)
        offset_secs == ((r.v % 128) - UTCOFFSET_SHIFT) * UTCOFFSET_DIV
        v == Shr(r.v, 7)
    IN  IF r.ret # 0 THEN [ok |-> FALSE, val |-> ENull, p |-> r.p]
        ELSE [ok |-> TRUE, p |-> r.p,
              val |-> ETime(IF kind = KIND_NEG_TIME THEN -v ELSE v, offset_secs)]

\* read_uuid: [ok |-> BOOLEAN, val |-> element, p |-> position]
read_uuid(s, p) ==
    IF Len(s) - p < 16 THEN [ok |-> FALSE, val |-> ENull, p |-> p]
    ELSE [ok |-> TRUE, val |-> EUuid(SubSeq(s, p + 1, p + 16)), p |-> p + 16]

\* acid_read_element, called with p < Len(s):
\* [ok |-> BOOLEAN, val |-> element, p |-> position]
acid_read_element(s, p) ==
    LET ch == s[p + 1]
        q == p + 1
    IN  IF ch = KIND_NULL THEN [ok |-> TRUE, val |-> ENull, p |-> q]
        ELSE IF ch = KIND_INTEGER THEN read_int(s, q, FALSE, 0)
        ELSE IF ch = KIND_NEG_INTEGER THEN read_int(s, q, TRUE, 255)
        ELSE IF ch = KIND_BOOL THEN
            LET r == read_plain_int(s, q, 0)
            IN  IF r.ret # 0 THEN [ok |-> FALSE, val |-> ENull, p |-> r.p]
                ELSE [ok |-> TRUE, val |-> EBool(r.v # 0), p |-> r.p]
        ELSE IF ch = KIND_BLOB THEN
            LET r == read_str(s, q)
            IN  [ok |-> TRUE, val |-> EBlob(r.val), p |-> r.p]
        ELSE IF ch = KIND_TEXT THEN
            LET r == read_str(s, q)
                d == DecodeUTF8(r.val)
            IN  [ok |-> d.ok, val |-> IF d.ok THEN EText(d.u) ELSE ENull, p |-> r.p]
        ELSE IF ch = KIND_NEG_TIME \/ ch = KIND_TIME THEN read_time(s, q, ch)
        ELSE IF ch = KIND_UUID THEN read_uuid(s, q)
        ELSE [ok |-> FALSE, val |-> ENull, p |-> q]

\* unpack: [ok |-> BOOLEAN, tup |-> tuple, p |-> position]
RECURSIVE unpack_loop(_, _, _)
unpack_loop(s, p, tup_) ==
    IF ~(p < Len(s)) THEN [ok |-> TRUE, tup |-> tup_, p |-> p]
    ELSE IF s[p + 1] = KIND_SEP THEN [ok |-> TRUE, tup |-> tup_, p |-> p + 1]
    ELSE
        LET r == acid_read_element(s, p)
        IN  IF ~r.ok THEN [ok |-> FALSE, tup |-> <<>>, p |-> r.p]
            ELSE unpack_loop(s, r.p, Append(tup_, r.val))

unpack(s, p) == unpack_loop(s, p, <<>>)

\* *rdr->p++ in acid_skip_element, which checks no bound: a read at or past
\* rdr->e gives oob, whatever byte lies after the buffer.
PeekByte(s, p, oob) == IF p < Len(s) THEN s[p + 1] ELSE oob

\* acid_skip_element: [ret |-> 0 or -1, p |-> position, eof |-> 0 or 1]
acid_skip_element(s, p, eof, oob) ==
    LET ch == PeekByte(s, p, oob)
        q == p + 1
        skipint(xor) ==
            LET c2 == BitXor(xor, PeekByte(s, q, oob))
            IN  IF c2 <= 248 /\ c2 > 240 THEN q + 2
                ELSE IF c2 >= 249 THEN q + 1 + (8 - (255 - c2))
                ELSE q + 1
        RECURSIVE scan(_)
        scan(i) == IF i < Len(s) /\ s[i + 1] >= 128 THEN scan(i + 1) ELSE i
        r == IF ch = KIND_BOOL THEN [ret |-> 0, p |-> q + 1, eof |-> eof]
             ELSE IF ch = KIND_NULL THEN [ret |-> 0, p |-> q, eof |-> eof]
             ELSE IF ch = KIND_NEG_TIME \/ ch = KIND_NEG_INTEGER
                  THEN [ret |-> 0, p |-> skipint(255), eof |-> eof]
             ELSE IF ch = KIND_TIME \/ ch = KIND_INTEGER
                  THEN [ret |-> 0, p |-> skipint(0), eof |-> eof]
             ELSE IF ch = KIND_TEXT \/ ch = KIND_BLOB
                  THEN [ret |-> 0, p |-> scan(q), eof |-> eof]
             ELSE IF ch = KIND_UUID THEN [ret |-> 0, p |-> q + 16, eof |-> eof]
             ELSE IF ch = KIND_SEP THEN [ret |-> 0, p |-> q, eof |-> 1]
             ELSE [ret |-> -1, p |-> q, eof |-> eof]
    IN  IF r.p = Len(s) /\ r.eof = 0 THEN [r EXCEPT !.eof = 1] ELSE r

\* acid_memcmp: the sign of the comparison of two byte strings
RECURSIVE memcmp_from(_, _, _, _)
memcmp_from(s1, s2, i, n) ==
    IF i > n THEN 0
    ELSE IF s1[i] < s2[i] THEN -1
    ELSE IF s1[i] > s2[i] THEN 1
    ELSE memcmp_from(s1, s2, i + 1, n)

memcmp(s1, s2, n) == memcmp_from(s1, s2, 1, n)

acid_memcmp(s1, s2) ==
    LET s1len == Len(s1)
        s2len == Len(s2)
        rc == memcmp(s1, s2, IF s1len < s2len THEN s1len ELSE s2len)
    IN  IF rc # 0 THEN rc
        ELSE IF s1len < s2len THEN -1
        ELSE IF s1len > s2len THEN 1
        ELSE 0

\* acid_keylist_from_raw on raw (the bytes after the prefix):
\* [ok |-> BOOLEAN, out |-> the list of Keys (each a byte string)]
RECURSIVE keylist_loop(_, _, _, _, _, _)
keylist_loop(raw, p, eof, start, out, oob) ==
    IF eof # 0 THEN [ok |-> TRUE, out |-> out]
    ELSE
        LET r == acid_skip_element(raw, p, eof, oob)
        IN  IF r.ret # 0 THEN [ok |-> FALSE, out |-> <<>>]
            ELSE IF r.eof # 0 /\ start # r.p THEN
                LET nudge == IF r.p = Len(raw) THEN 0 ELSE 1
                    key == SubSeq(raw, start + 1, r.p - nudge)
                IN  keylist_loop(raw, r.p, IF r.p = Len(raw) THEN 1 ELSE 0,
                                 r.p, Append(out, key), oob)
            ELSE keylist_loop(raw, r.p, r.eof, start, out, oob)

acid_keylist_from_raw(raw, oob) ==
    keylist_loop(raw, 0, IF Len(raw) = 0 THEN 1 ELSE 0, 0, <<>>, oob)

----------------------------------------------------------------------------
(* Keys.  A Key is its encoded bytes (key->p[0..size]). *)

\* key_new on a tuple: the Key holding the encoding of the tuple
key_new(args) == write_tuple(args)

\* acid_make_key(obj): <<Key>>, or <<>> (NULL) when an element cannot be encoded.
\* obj is [ok |-> whether every element is of a supported type, tup |-> tuple].
acid_make_key(obj) == IF obj.ok THEN <<key_new(obj.tup)>> ELSE <<>>

\* An acid_key_to_raw that leaves the prefix out
acid_key_to_raw_bare(self, pfx) == self

\* acid_key_to_raw: prefix followed by the Key's bytes
acid_key_to_raw(self, pfx) == pfx \o self

\* longest_prefix: length of the longest prefix of p not ending with 0xff
RECURSIVE longest_prefix_from(_, _, _)
longest_prefix_from(p, i, goodlen) ==
    IF i > Len(p) THEN goodlen
    ELSE longest_prefix_from(p, i + 1, IF p[i] # 255 THEN i ELSE goodlen)

longest_prefix(p) == longest_prefix_from(p, 1, 0)

\* acid_next_greater_bytes: <<bytes>>, or <<>> when every byte is 0xff
acid_next_greater_bytes(src) ==
    LET goodlen == longest_prefix(src)
    IN  IF goodlen = 0 THEN <<>>
        ELSE <<[i \in 1..goodlen |->
                    IF i = goodlen THEN src[i] + 1 ELSE src[i]]>>

\* PyUnicode_GetMax(): 0xffff on a narrow build, 0x10ffff on a wide one
MaxUnicodeOrdinals == {65535, 1114111}

\* acid_next_greater_text: <<code points>>, or <<>> when every code point is
\* max_unicode_ordinal
acid_next_greater_text(src, max_unicode_ordinal) ==
    LET good == {i \in 1..Len(src) : src[i] # max_unicode_ordinal}
        goodlen == IF good = {} THEN 0 ELSE CHOOSE i \in good : \A j \in good : j <= i
    IN  IF goodlen = 0 THEN <<>>
        ELSE <<[i \in 1..goodlen |->
                    IF i = goodlen THEN src[i] + 1 ELSE src[i]]>>

\* seek_last_element: [rc |-> 0 or -1, p |-> the position of the kind byte of
\* the last element]
RECURSIVE seek_last_loop(_, _, _, _, _, _)
seek_last_loop(s, p, eof, rc, last, oob) ==
    IF eof # 0 \/ rc # 0 THEN [rc |-> rc, p |-> last]
    ELSE LET r == acid_skip_element(s, p, eof, oob)
         IN  seek_last_loop(s, r.p, r.eof, r.ret, p, oob)

seek_last_element(s, oob) == seek_last_loop(s, 0, 0, 0, 0, oob)

\* acid_prefix_bound(wtr, src): [rc |-> 0 or -1, out |-> the bytes written to
\* wtr], entered with wtr holding the bytes written so far
RECURSIVE prefix_bound_from(_, _, _, _)
prefix_bound_from(written, src, oob, max_unicode_ordinal) ==
    IF src = <<>> THEN [rc |-> -1, out |-> written]
    ELSE
        LET sk == seek_last_element(src, oob)
            new_end == sk.p
            kind == src[new_end + 1]
            head == SubSeq(src, 1, new_end)
        IN  IF sk.rc # 0 THEN [rc |-> -1, out |-> written]
            ELSE IF kind = KIND_TEXT \/ kind = KIND_BLOB THEN
                LET last == acid_read_element(src, new_end)
                    new == IF ~last.ok THEN <<>>
                           ELSE IF last.val.t = "text"
                           THEN acid_next_greater_text(last.val.v, max_unicode_ordinal)
                           ELSE acid_next_greater_bytes(last.val.v)
                    elem == IF last.val.t = "text" THEN EText(new[1])
                            ELSE EBlob(new[1])
                IN  IF ~last.ok THEN [rc |-> -1, out |-> written]
                    ELSE IF new # <<>>
                    THEN [rc |-> 0,
                          out |-> written \o head \o acid_write_element(elem)]
                    ELSE prefix_bound_from(written, head, oob, max_unicode_ordinal)
            ELSE
                LET tail_ == SubSeq(src, new_end + 1, Len(src))
                    goodlen == longest_prefix(tail_)
                IN  IF goodlen # 0
                    THEN [rc |-> 0,
                          out |-> written \o head \o
                                  [i \in 1..goodlen |->
                                      IF i = goodlen THEN tail_[i] + 1 ELSE tail_[i]]]
                    ELSE prefix_bound_from(written \o head, head, oob,
                                           max_unicode_ordinal)

acid_prefix_bound(src, oob, max_unicode_ordinal) ==
    prefix_bound_from(<<>>, src, oob, max_unicode_ordinal)

\* acid_next_greater_str (declared in acid.h, defined in no file of src/):
\* the next-greater byte string as a new string object.
acid_next_greater_str(slice) == acid_next_greater_bytes(slice)

\* acid_next_greater (declared in acid.h, defined in no file of src/): the
\* length of the longest prefix not ending with 0xff, or -1 when there is none.
acid_next_greater(slice) ==
    LET goodlen == longest_prefix(slice)
    IN  IF goodlen = 0 THEN -1 ELSE goodlen

\* A key_next_greater that keeps the trailing 0xff bytes
key_next_greater_untruncated(self) ==
    IF self = <<>> THEN <<>>
    ELSE <<[i \in 1..Len(self) |->
              IF i = Len(self) THEN (self[i] + 1) % 256 ELSE self[i]]>>

\* key_next_greater / acid_key_next_greater: <<Key>>, or <<>> for None
key_next_greater(self) ==
    LET goodlen == acid_next_greater(self)
    IN  IF goodlen = -1 THEN <<>>
        ELSE <<[i \in 1..goodlen |->
                    IF i = goodlen THEN (self[i] + 1) % 256 ELSE self[i]]>>

\* The comparison result of key_richcompare against a tuple: the loop that
\* encodes one element at a time and compares it with the Key's next bytes.
RECURSIVE richcompare_loop(_, _, _, _)
richcompare_loop(self, kp, other, ti) ==
    LET remain == Len(self) - kp
    IN  IF ~(remain # 0 /\ ti < Len(other))
        THEN [cmpres |-> 0, remain |-> remain, ti |-> ti]
        ELSE
            LET w == acid_write_element(other[ti + 1])
                minsz == IF remain < Len(w) THEN remain ELSE Len(w)
                c == memcmp(SubSeq(self, kp + 1, kp + minsz), w, minsz)
            IN  IF c # 0
                THEN [cmpres |-> c, remain |-> remain, ti |-> ti + 1]
                ELSE richcompare_loop(self, kp + minsz, other, ti + 1)

key_cmpres_tuple(self, other) ==
    LET r == richcompare_loop(self, 0, other, 0)
    IN  IF r.cmpres # 0 THEN r.cmpres
        ELSE IF r.remain # 0 THEN 1
        ELSE IF r.ti < Len(other) THEN -1
        ELSE 0

\* The switch on op that ends key_richcompare
richcompare_ok(cmpres, op) ==
    IF op = "Py_LT" THEN cmpres < 0
    ELSE IF op = "Py_LE" THEN cmpres <= 0
    ELSE IF op = "Py_EQ" THEN cmpres = 0
    ELSE IF op = "Py_NE" THEN cmpres # 0
    ELSE IF op = "Py_GT" THEN cmpres > 0
    ELSE cmpres >= 0

\* key_length(self): [ret |-> the count or -1, p |-> where rdr.p ended]
RECURSIVE key_length_loop(_, _, _, _, _)
key_length_loop(s, p, eof, len, oob) ==
    IF eof # 0 THEN [ret |-> len, p |-> p]
    ELSE LET r == acid_skip_element(s, p, eof, oob)
         IN  IF r.ret # 0 THEN [ret |-> -1, p |-> r.p]
             ELSE key_length_loop(s, r.p, r.eof, len + 1, oob)

key_length(self, oob) ==
    key_length_loop(self, 0, IF Len(self) = 0 THEN 1 ELSE 0, 0, oob)

\* key_richcompare(self, other, op), other a Key ([key |-> bytes]) or a
\* tuple ([tup |-> tuple])
key_richcompare(self, other, op) ==
    IF "key" \in DOMAIN other
    THEN richcompare_ok(acid_memcmp(self, other.key), op)
    ELSE richcompare_ok(key_cmpres_tuple(self, other.tup), op)

\* key_concat(self, other), other a Key ([key |-> bytes]) or a tuple
\* ([tup |-> tuple]): the bytes of the new Key.  In the Key branch both
\* memcpy() write at Key_DATA(out); the bytes of out that neither writes keep
\* what PyObject_Malloc left there, uninit[i] for the i-th such byte.
key_concat(self, other, uninit) ==
    IF "key" \in DOMAIN other
    THEN LET ls == Len(self)
             lo_ == Len(other.key)
             top == IF ls > lo_ THEN ls ELSE lo_
         IN  [i \in 1..(ls + lo_) |->
                 IF i <= lo_ THEN other.key[i]
                 ELSE IF i <= ls THEN self[i]
                 ELSE uninit[i - top]]
    ELSE self \o write_tuple(other.tup)

\* key_from_raw without the comparison with the prefix
key_from_raw_unchecked(raw, pfx) ==
    [none |-> FALSE, ok |-> TRUE, key |-> SubSeq(raw, Len(pfx) + 1, Len(raw))]

\* key_from_raw(raw, prefix): [none |-> TRUE] for None, else the bytes of the
\* new Key
key_from_raw(raw, pfx) ==
    IF Len(raw) < Len(pfx) \/ memcmp(pfx, raw, Len(pfx)) # 0
    THEN [none |-> TRUE, ok |-> TRUE, key |-> <<>>]
    ELSE [none |-> FALSE, ok |-> TRUE, key |-> SubSeq(raw, Len(pfx) + 1, Len(raw))]

\* py_unpack(s, prefix): [none |-> TRUE] for None, else what unpack returns;
\* p is where its reader ended, as an offset into s (0 when no reader is made)
py_unpack(s, pfx) ==
    IF Len(s) < Len(pfx) \/ memcmp(pfx, s, Len(pfx)) # 0
    THEN [none |-> TRUE, ok |-> TRUE, tup |-> <<>>, p |-> 0]
    ELSE unpack(s, Len(pfx)) @@ [none |-> FALSE]

\* keylist_from_raw(raw, prefix): [none |-> TRUE] for None, else what
\* acid_keylist_from_raw returns on the bytes after the prefix
keylist_from_raw(raw, pfx, oob) ==
    IF Len(raw) < Len(pfx) \/ memcmp(pfx, raw, Len(pfx)) # 0
    THEN [none |-> TRUE, ok |-> TRUE, out |-> <<>>]
    ELSE LET r == acid_keylist_from_raw(SubSeq(raw, Len(pfx) + 1, Len(raw)), oob)
         IN  [none |-> FALSE, ok |-> r.ok, out |-> r.out]

----------------------------------------------------------------------------
(* The state after construction (iter_new) *)

\* The collection prefix of the iterator and of the codec calls
Prefix == <<65>>

\* iter_new(engine, prefix).  lo.pred and hi.pred are not initialised by
\* iter_new; no code reads a pred while the bound's key is NULL.
iter_new(pfx) ==
    /\ engine = <<"engine">>
    /\ prefix = <<pfx>>
    /\ lo = [key |-> <<>>, pred |-> "uninitialised"]
    /\ hi = [key |-> <<>>, pred |-> "uninitialised"]
    /\ stop = "none"
    /\ max = -1
    /\ it = <<>>
    /\ tup = <<>>
    /\ started = 0
    /\ keys = <<>>

\* The caller before its first call
NoCalls ==
    /\ pc = "config"
    /\ dir = "none"
    /\ origin = [lo |-> "none", hi |-> "none"]
    /\ cfg = [lo |-> lo, hi |-> hi, max |-> max, origin |-> origin]
    /\ yielded = <<>>
    /\ ret = "None"
    /\ exc = "none"

NoCall ==
    [op |-> "none", k |-> <<>>, a |-> <<>>, b |-> <<>>, done |-> TRUE, res |-> <<>>]

----------------------------------------------------------------------------
(* Shared Keys (key.c) and the subscriber list of their source (memsink.h) *)

\* sizeof(void *): a 64-bit build
PtrSize == 8

\* sizeof(SharedKeyInfo): source, sink_node.prev, sink_node.next
SharedKeyInfoSize == 3 * PtrSize

\* The words of SharedKeyInfo, in the order of the struct
W_SOURCE == 1
W_PREV == 2
W_NEXT == 3

\* The addresses PyObject_Malloc hands out for Keys, and the source's address
MaxKeys == 2
KeyAddrs == 1..MaxKeys
SourceAddr == MaxKeys + 1

\* The sizes of the Shared Keys made
KeySizes == {0, 8, 9, 17, 24}

\* How often the source's memory changes
MaxGen == 2

\* The bytes a Key of n bytes aliases in the source's memory once that memory
\* has changed g times
SourceBytes(n, g) == [i \in 1..n |-> i + g]

\* A pointer as the bytes of a word: NULL is all zero bits, the bytes of an
\* address are no key bytes
PtrWord(a) == [i \in 1..PtrSize |-> 0 - a]

\* The pointer a word holds: an address, NULL (0), or a wild pointer (-1) when
\* key bytes were copied over it
AsPtr(word) ==
    IF \E a \in 0..SourceAddr : word = PtrWord(a)
    THEN CHOOSE a \in 0..SourceAddr : word = PtrWord(a)
    ELSE -1

\* Key_INFO(k)->source, ->sink_node.prev, ->sink_node.next read as pointers
InfoPtr(k, w) == AsPtr(SubSeq(k.hdr, (w - 1) * PtrSize + 1, w * PtrSize))

\* The Key after a pointer was stored in one of these fields
SetInfoPtr(k, w, a) ==
    [k EXCEPT !.hdr = [i \in 1..SharedKeyInfoSize |->
        IF i > (w - 1) * PtrSize /\ i <= w * PtrSize THEN 0 - a ELSE @[i]]]

\* memory no Key occupies yet
NoKey ==
    [st |-> "unborn", size |-> 0, flags |-> "none", p |-> "none", at |-> 0,
     hdr |-> [i \in 1..SharedKeyInfoSize |-> 0], heap |-> <<>>, inv |-> 0]

\* Key_DATA(k)[0..Key_SIZE(k)] read while the source's memory has changed g times
Key_DATA(k, g) ==
    IF k.p = "source" THEN SourceBytes(k.size, g)
    ELSE IF k.p = "header" THEN SubSeq(k.hdr, 1, k.size)
    ELSE k.heap

\* A pointer that can be followed: to a live Key, or to a freed one whose
\* memory is still as it was (intact)
Deref(ks, a, intact) ==
    a \in KeyAddrs /\ (ks[a].st = "live" \/ (ks[a].st = "freed" /\ intact))

\* invalidate_shared_key(source, sink): the Key afterwards and the value
\* returned; malloc_fails is the outcome of PyObject_Malloc
invalidate_shared_key(k, g, malloc_fails) ==
    LET old_data == Key_DATA(k, g)
    IN  IF k.size < SharedKeyInfoSize
        THEN [rc |-> 0,
              key |-> [k EXCEPT !.p = "header", !.flags = "KEY_PRIVATE",
                                !.hdr = old_data \o SubSeq(@, k.size + 1, Len(@)),
                                !.inv = @ + 1]]
        ELSE IF malloc_fails
        THEN [rc |-> -1, key |-> [k EXCEPT !.inv = @ + 1]]
        ELSE [rc |-> 0,
              key |-> [k EXCEPT !.p = "heap", !.flags = "KEY_COPIED",
                                !.heap = old_data, !.inv = @ + 1]]

\* The while loop of ms_notify from cur on: the Keys afterwards, and whether
\* the process died (a pointer that cannot be followed, the assert of
\* invalidate_shared_key)
RECURSIVE ms_notify_loop(_, _, _, _, _)
ms_notify_loop(ks, cur, g, fails, intact) ==
    IF cur = 0 THEN [keys |-> ks, crashed |-> FALSE]
    ELSE IF ~Deref(ks, cur, intact) THEN [keys |-> ks, crashed |-> TRUE]
    ELSE IF ks[cur].flags # "KEY_SHARED" THEN [keys |-> ks, crashed |-> TRUE]
    ELSE LET inval == invalidate_shared_key(ks[cur], g, cur \in fails).key
             unlinked == SetInfoPtr(SetInfoPtr(inval, W_PREV, 0), W_NEXT, 0)
         IN  ms_notify_loop([ks EXCEPT ![cur] = unlinked],
                            InfoPtr(inval, W_NEXT), g, fails, intact)

\* _ms_listen_impl(src, sink): the Keys and the list head afterwards
ms_listen_impl(ks, hd, sink, intact) ==
    IF hd # 0 /\ ~Deref(ks, hd, intact) THEN [keys |-> ks, head |-> hd, crashed |-> TRUE]
    ELSE LET ks1 == IF hd # 0 THEN [ks EXCEPT ![hd] = SetInfoPtr(@, W_PREV, sink)]
                    ELSE ks
             node == SetInfoPtr(SetInfoPtr(ks1[sink], W_NEXT, hd), W_PREV, 0)
         IN  [keys |-> [ks1 EXCEPT ![sink] = node], head |-> sink, crashed |-> FALSE]

\* _ms_cancel_impl(src, sink): the Keys and the list head afterwards; rc is -1
\* when it reports "memsink.h list is corrupt."
ms_cancel_impl(ks, hd, sink, intact) ==
    LET prev == InfoPtr(ks[sink], W_PREV)
        next == InfoPtr(ks[sink], W_NEXT)
    IN  IF (prev # 0 /\ ~Deref(ks, prev, intact)) \/ (next # 0 /\ ~Deref(ks, next, intact))
        THEN [keys |-> ks, head |-> hd, rc |-> -1, crashed |-> TRUE]
        ELSE LET ks1 == IF next # 0 THEN [ks EXCEPT ![next] = SetInfoPtr(@, W_PREV, prev)]
                        ELSE ks
                 ks2 == IF prev # 0 THEN [ks1 EXCEPT ![prev] = SetInfoPtr(@, W_NEXT, next)]
                        ELSE ks1
                 cleared == [ks2 EXCEPT ![sink] =
                                SetInfoPtr(SetInfoPtr(@, W_PREV, 0), W_NEXT, 0)]
             IN  IF prev = 0 /\ hd # sink
                 THEN [keys |-> ks2, head |-> hd, rc |-> -1, crashed |-> FALSE]
                 ELSE [keys |-> cleared, head |-> IF prev = 0 THEN next ELSE hd,
                       rc |-> 0, crashed |-> FALSE]

\* No Shared Key was made yet
NoSharedKeys ==
    /\ skeys = [a \in KeyAddrs |-> NoKey]
    /\ sink_head = 0
    /\ gen = 0
    /\ notified = FALSE
    /\ spc = "ok"

\* The process dies
SharedCrash ==
    /\ spc' = "crashed"
    /\ UNCHANGED <<skeys, sink_head, gen, notified>>

\* acid_make_shared_key(source, p, size), at an address PyObject_Malloc is free
\* to hand out
acid_make_shared_key ==
    /\ spc = "ok"
    /\ ~notified
    /\ \E a \in KeyAddrs, size \in KeySizes, intact \in BOOLEAN :
        /\ skeys[a].st \in {"unborn", "freed"}
        /\ LET fresh == [NoKey EXCEPT !.st = "live", !.hdr = skeys[a].hdr]
               l == ms_listen_impl([skeys EXCEPT ![a] = fresh], sink_head, a, intact)
           IN  IF l.crashed THEN SharedCrash
               ELSE /\ skeys' = [l.keys EXCEPT ![a] =
                            SetInfoPtr([@ EXCEPT !.flags = "KEY_SHARED", !.p = "source",
                                                 !.size = size, !.at = gen],
                                       W_SOURCE, SourceAddr)]
                    /\ sink_head' = l.head
                    /\ UNCHANGED <<gen, notified, spc>>
    /\ UNCHANGED <<ivars, call>>

\* key_dealloc(self)
key_dealloc ==
    /\ spc = "ok"
    /\ \E a \in KeyAddrs, intact \in BOOLEAN :
        /\ skeys[a].st = "live"
        /\ IF skeys[a].flags = "KEY_SHARED"
           THEN LET c == ms_cancel_impl(skeys, sink_head, a, intact)
                IN  IF c.crashed THEN SharedCrash
                    ELSE /\ skeys' = [c.keys EXCEPT ![a].st = "freed"]
                         /\ sink_head' = c.head
                         /\ UNCHANGED <<gen, notified, spc>>
           ELSE /\ skeys' = [skeys EXCEPT ![a].st = "freed"]
                /\ UNCHANGED <<sink_head, gen, notified, spc>>
    /\ UNCHANGED <<ivars, call>>

\* ms_notify(src, &src->sink_head), called by the source before its memory
\* changes
ms_notify ==
    /\ spc = "ok"
    /\ ~notified
    /\ gen < MaxGen
    /\ \E fails \in SUBSET KeyAddrs, intact \in BOOLEAN :
        LET n == ms_notify_loop(skeys, sink_head, gen, fails, intact)
        IN  /\ skeys' = n.keys
            /\ spc' = IF n.crashed THEN "crashed" ELSE "ok"
            /\ notified' = ~n.crashed
            /\ UNCHANGED <<sink_head, gen>>
    /\ UNCHANGED <<ivars, call>>

\* The source's memory changes, once its subscribers were notified
source_changes ==
    /\ spc = "ok"
    /\ notified
    /\ gen' = gen + 1
    /\ notified' = FALSE
    /\ UNCHANGED <<skeys, sink_head, spc>>
    /\ UNCHANGED <<ivars, call>>

InitShared ==
    /\ records = <<>>
    /\ iter_new(Prefix)
    /\ NoCalls
    /\ NoSharedKeys
    /\ call = NoCall

NextShared ==
    \/ acid_make_shared_key
    \/ key_dealloc
    \/ ms_notify
    \/ source_changes

\* Shared Keys made over one source, destroyed, and invalidated by the source
SpecShared == InitShared /\ [][NextShared]_vars

----------------------------------------------------------------------------
(* Codec calls on inputs drawn from bounded sets *)

\* Longest byte string built from every combination of BlobBytes
MaxBlobLen == 2

\* Longest list of tuples handed to packs()
MaxListLen == 3

BlobBytes == {0, 97, 255}

\* Strings on both sides of a 7-byte group (7 bytes fill 8 output bytes)
LongBlobs ==
    {[i \in 1..n |-> 97] : n \in 6..8}
        \cup {[i \in 1..n |-> IF i = n THEN 0 ELSE 255] : n \in 7..8}

Blobs == UNION {[1..n -> BlobBytes] : n \in 0..MaxBlobLen} \cup LongBlobs

\* The varint class boundaries and their neighbours
IntClassValues == {0, 1, 240, 241, 2287, 2288, 67823, 67824, 16777215, 16777216}

IntValues == IntClassValues \cup {0 - v : v \in IntClassValues}

IntElements == {EInt(v) : v \in IntValues}
BoolElements == {EBool(b) : b \in BOOLEAN}
BlobElements == {EBlob(b) : b \in Blobs}
Elements == {ENull} \cup IntElements \cup BoolElements \cup BlobElements

\* Elements that follow the first element of a tuple
Tails == {<<>>, <<EInt(-1)>>, <<EBlob(<<97>>), ENull>>}

\* Elements of one kind that follow the first element of a compared tuple
PairTails == {<<>>, <<EInt(-1)>>, <<EInt(0)>>}

\* The tuples of the list calls
ListTuples == {<<>>, <<EInt(1)>>, <<EInt(300), EBool(TRUE)>>, <<EBlob(<<97, 0>>)>>}

\* Bytes that may follow a buffer in memory
OobBytes == {0, KIND_SEP}

CompareOps == {"Py_LT", "Py_LE", "Py_EQ", "Py_NE", "Py_GT", "Py_GE"}

\* The tuples of the comparisons
CompareTuples ==
    {<<>>, <<EInt(1)>>, <<EInt(241)>>, <<EInt(1), EInt(1)>>, <<EInt(-1)>>,
     <<EBlob(<<>>)>>, <<EBlob(<<97>>)>>, <<EBlob(<<97, 0>>)>>,
     <<EBlob(<<97>>), EInt(1)>>, <<EBool(TRUE)>>, <<ENull>>}

\* Bytes that malloc() may hand out in a fresh block
UninitBytes == {0, 205}

\* A call not made yet: its name and its arguments (k a byte string, a and b
\* lists of tuples)
Pending(op, k, a, b) ==
    [op |-> op, k |-> k, a |-> a, b |-> b, done |-> FALSE, res |-> <<>>]

\* Two tuples with the same kinds at the same positions
PacksPairInputs ==
    UNION {{Pending("packs", <<>>, <<a>>, <<<<y>> \o tb>>) :
               a \in {<<>>} \cup {<<x>> \o ta : x \in kind, ta \in PairTails},
               y \in kind, tb \in PairTails} :
           kind \in {IntElements, BoolElements, BlobElements, {ENull}}}

\* A tuple that starts with any element
UnpackInputs ==
    {Pending("unpack", <<>>, <<<<v>> \o tail>>, <<>>) : v \in Elements, tail \in Tails}

\* A list of tuples
KeylistInputs ==
    UNION {{Pending("keylist_from_raw", <<>>, ts, <<>>) : ts \in [1..n -> ListTuples]} :
           n \in 0..MaxListLen}

\* A Key, a tuple and a comparison
CompareInputs ==
    UNION {{Pending(op, key_new(k), <<t>>, <<>>) : k \in CompareTuples, t \in CompareTuples} :
           op \in CompareOps}

\* A Key and a Key or a tuple to append to it
ConcatInputs ==
    {Pending(op, key_new(k), <<t>>, <<>>) :
        op \in {"concat_key", "concat_tuple"}, k \in CompareTuples, t \in CompareTuples}

\* The tuples whose Keys next_greater() is called on and compared with
NextGreaterTuples ==
    CompareTuples \cup
    {<<EInt(0)>>, <<EInt(1), EInt(0)>>, <<EInt(2)>>, <<EInt(240)>>, <<EInt(-2)>>,
     <<EBlob(<<255>>)>>, <<EBlob([i \in 1..7 |-> 255])>>,
     <<EBlob([i \in 1..7 |-> 255]), EInt(1)>>, <<EBool(FALSE)>>}

\* The validly encoded Keys
ValidKeys == {key_new(t) : t \in NextGreaterTuples}

\* Keys as Key.from_raw() makes them of any bytes
RawKeys == {<<255>>, <<255, 255>>, <<KIND_BLOB, 255>>, <<KIND_INTEGER, 1, 255>>}

NextGreaterInputs ==
    {Pending("next_greater", k, <<>>, <<>>) : k \in ValidKeys \cup RawKeys}

\* The tuples prefix_bound() is called on
PrefixTuples ==
    {<<EInt(1)>>, <<EInt(495)>>, <<EInt(-1)>>, <<EBool(TRUE)>>, <<EInt(1), EInt(2)>>,
     <<EBlob(<<97>>)>>, <<EText(<<97>>)>>, <<EInt(1), EBlob(<<255>>)>>,
     <<EBlob(<<>>)>>, <<EInt(1), EText(<<>>)>>}

\* The tuples compared with the bound
ProbeTuples ==
    PrefixTuples \cup
    {<<>>, <<ENull>>, <<EInt(0)>>, <<EInt(1), EInt(0)>>, <<EInt(1), EInt(2), ENull>>,
     <<EInt(1), EInt(3)>>, <<EInt(2)>>, <<EInt(496)>>, <<EInt(495), EInt(0)>>,
     <<EInt(-1), ENull>>, <<EInt(-2)>>, <<EBool(TRUE), EBool(TRUE)>>,
     <<EBool(FALSE)>>, <<EBlob(<<97>>), EInt(1)>>, <<EBlob(<<97, 97>>)>>,
     <<EBlob(<<98>>)>>, <<EBlob(<<96>>)>>, <<EText(<<97>>), ENull>>,
     <<EText(<<97, 0>>)>>, <<EText(<<98>>)>>, <<EBlob(<<>>), EInt(1)>>,
     <<EInt(1), EBlob(<<255>>), EInt(0)>>, <<EInt(1), EBlob(<<255, 0>>)>>,
     <<EInt(1), EText(<<120>>)>>, <<EInt(1), EText(<<>>), ENull>>}

PrefixBoundInputs ==
    {Pending("prefix_bound", key_new(p), <<p>>, <<>>) : p \in PrefixTuples}

\* packs(a, Prefix) and packs(b, Prefix) for two tuples of the same kinds
PacksPair ==
    /\ call.op = "packs" /\ ~call.done
    /\ call' = [call EXCEPT !.done = TRUE,
                  !.res = <<py_packs([list |-> FALSE, v |-> call.a[1]], Prefix),
                            py_packs([list |-> FALSE, v |-> call.b[1]], Prefix)>>]
    /\ UNCHANGED <<ivars, svars>>

\* unpack(packs(t, Prefix), Prefix); k keeps what packs returned
PacksUnpack ==
    /\ call.op = "unpack" /\ ~call.done
    /\ LET raw == py_packs([list |-> FALSE, v |-> call.a[1]], Prefix)
       IN  call' = [call EXCEPT !.done = TRUE, !.k = raw,
                                !.res = py_unpack(raw, Prefix)]
    /\ UNCHANGED <<ivars, svars>>

\* keylist_from_raw(packs(ts, Prefix), Prefix); k keeps what packs returned
PacksKeylist ==
    /\ call.op = "keylist_from_raw" /\ ~call.done
    /\ \E oob \in OobBytes :
        LET raw == py_packs([list |-> TRUE, v |-> call.a], Prefix)
        IN  call' = [call EXCEPT !.done = TRUE, !.k = raw,
                                 !.res = keylist_from_raw(raw, Prefix, oob)]
    /\ UNCHANGED <<ivars, svars>>

\* key op t for a Key and a tuple
KeyCompare ==
    /\ call.op \in CompareOps /\ ~call.done
    /\ call' = [call EXCEPT !.done = TRUE,
                  !.res = key_richcompare(call.k, [tup |-> call.a[1]], call.op)]
    /\ UNCHANGED <<ivars, svars>>

\* k + Key(t) or k + t; res keeps the new Key and both operands afterwards
KeyConcat ==
    /\ call.op \in {"concat_key", "concat_tuple"} /\ ~call.done
    /\ LET other == IF call.op = "concat_key" THEN [key |-> key_new(call.a[1])]
                    ELSE [tup |-> call.a[1]]
           n == IF call.op = "concat_key"
                THEN (IF Len(call.k) < Len(other.key) THEN Len(call.k)
                      ELSE Len(other.key))
                ELSE 0
       IN  \E uninit \in [1..n -> UninitBytes] :
            call' = [call EXCEPT !.done = TRUE,
                       !.res = [out |-> key_concat(call.k, other, uninit),
                                self |-> call.k, other |-> other]]
    /\ UNCHANGED <<ivars, svars>>

\* k.next_greater()
KeyNextGreater ==
    /\ call.op = "next_greater" /\ ~call.done
    /\ call' = [call EXCEPT !.done = TRUE, !.res = key_next_greater(call.k)]
    /\ UNCHANGED <<ivars, svars>>

\* prefix_bound(Key(p))
PrefixBound ==
    /\ call.op = "prefix_bound" /\ ~call.done
    /\ \E oob \in OobBytes, max_unicode_ordinal \in MaxUnicodeOrdinals :
        call' = [call EXCEPT !.done = TRUE,
                   !.res = acid_prefix_bound(call.k, oob, max_unicode_ordinal)]
    /\ UNCHANGED <<ivars, svars>>

\* One or more elements of each kind, the extremes of the kind included
KindElements ==
    {ENull, EInt(-70000), EInt(-1), EInt(0), EInt(70000),
     EBool(FALSE), EBool(TRUE), EBlob(<<>>), EBlob(<<255, 255>>),
     EText(<<>>), EText(<<97>>), EText(<<65535>>),
     EUuid([i \in 1..16 |-> 0]), EUuid([i \in 1..16 |-> 255]),
     ETime(-100000, 0), ETime(-1, -57600), ETime(0, 0), ETime(100000, 56700)}

KindPairInputs ==
    {Pending("packs_kinds", <<>>, <<<<x>>>>, <<<<y>>>>) :
        x \in KindElements, y \in KindElements}

\* packs((x,), Prefix) and packs((y,), Prefix) for two elements of any kinds
PacksKinds ==
    /\ call.op = "packs_kinds" /\ ~call.done
    /\ call' = [call EXCEPT !.done = TRUE,
                  !.res = <<py_packs([list |-> FALSE, v |-> call.a[1]], Prefix),
                            py_packs([list |-> FALSE, v |-> call.b[1]], Prefix)>>]
    /\ UNCHANGED <<ivars, svars>>

\* Instants before, at and after 1970, in milliseconds, and every quantised
\* offset: offset_bits q stands for the UTC offset (q - 64) * 900 seconds
TimeMillis == {-100000, -1000, -1, 0, 1, 1000, 100000}

OffsetBits == 0..127

TimeInputs ==
    {Pending("unpack_time", <<>>,
             <<<<ETime(ms, (q - UTCOFFSET_SHIFT) * UTCOFFSET_DIV)>>>>, <<>>) :
        ms \in TimeMillis, q \in OffsetBits}

\* Texts of no, one and two code points, of one, two and three UTF-8 bytes
TextValues == {<<>>, <<97>>, <<97, 98>>, <<233>>, <<8364>>}

TextInputs ==
    {Pending("unpack_text", <<>>, <<<<EText(u)>>>>, <<>>) : u \in TextValues}

\* unpack(Prefix, packs((x,), Prefix)) for a datetime or a text x
PacksUnpackElement ==
    /\ call.op \in {"unpack_time", "unpack_text"} /\ ~call.done
    /\ LET raw == py_packs([list |-> FALSE, v |-> call.a[1]], Prefix)
       IN  call' = [call EXCEPT !.done = TRUE, !.k = raw,
                                !.res = py_unpack(raw, Prefix)]
    /\ UNCHANGED <<ivars, svars>>

\* Encodings that are cut short or hold a byte that is no kind: an unknown
\* kind alone and after an element, an integer without a body, integers of
\* the classes f9 and fb with one byte and no byte of the body, a negative
\* integer of the class f9 without a body, a boolean without its byte, a
\* UUID with 2 of its 16 bytes
MalformedKeys ==
    {<<7>>, <<KIND_INTEGER, 1, 7>>, <<KIND_INTEGER>>, <<KIND_INTEGER, 249, 1>>,
     <<KIND_INTEGER, 251>>, <<KIND_NEG_INTEGER, 6>>, <<KIND_BOOL>>,
     <<KIND_UUID, 1, 2>>}

WellFormedKeys == {<<>>, <<KIND_INTEGER, 1>>, <<KIND_INTEGER, 249, 1, 2, KIND_NULL>>}

RawInputs ==
    {Pending("unpack_raw", Prefix \o m, <<>>, <<>>) :
        m \in MalformedKeys \cup WellFormedKeys}
    \cup {Pending("length", m, <<>>, <<>>) :
        m \in MalformedKeys \cup WellFormedKeys}

\* Raw strings that do not start with Prefix, the empty one shorter than it
MismatchedRaws ==
    {<<>>, <<66>>, <<66, KIND_INTEGER, 1>>, <<KIND_INTEGER, 1>>,
     <<66, KIND_INTEGER, 1, KIND_SEP, KIND_NULL>>}

MatchedRaws ==
    {Prefix, Prefix \o <<KIND_INTEGER, 1>>,
     Prefix \o <<KIND_INTEGER, 1, KIND_SEP, KIND_NULL>>}

FromRawInputs ==
    {Pending(op, raw, <<>>, <<>>) :
        op \in {"unpack_raw", "key_from_raw", "keylist_raw"},
        raw \in MismatchedRaws \cup MatchedRaws}

\* Key.from_raw(raw, Prefix)
KeyFromRaw ==
    /\ call.op = "key_from_raw" /\ ~call.done
    /\ call' = [call EXCEPT !.done = TRUE, !.res = key_from_raw(call.k, Prefix)]
    /\ UNCHANGED <<ivars, svars>>

\* KeyList.from_raw(raw, Prefix)
KeylistFromRaw ==
    /\ call.op = "keylist_raw" /\ ~call.done
    /\ \E oob \in OobBytes :
        call' = [call EXCEPT !.done = TRUE,
                   !.res = keylist_from_raw(call.k, Prefix, oob)]
    /\ UNCHANGED <<ivars, svars>>

\* unpack(Prefix, raw)
UnpackRaw ==
    /\ call.op = "unpack_raw" /\ ~call.done
    /\ call' = [call EXCEPT !.done = TRUE, !.res = py_unpack(call.k, Prefix)]
    /\ UNCHANGED <<ivars, svars>>

\* len(k) for a Key k over raw bytes
KeyLength ==
    /\ call.op = "length" /\ ~call.done
    /\ \E oob \in OobBytes :
        call' = [call EXCEPT !.done = TRUE, !.res = key_length(call.k, oob)]
    /\ UNCHANGED <<ivars, svars>>

InitCodec ==
    /\ records = <<>>
    /\ iter_new(Prefix)
    /\ NoCalls
    /\ NoSharedKeys
    /\ call \in PacksPairInputs \cup UnpackInputs \cup KeylistInputs
                  \cup CompareInputs \cup ConcatInputs
                  \cup NextGreaterInputs \cup PrefixBoundInputs
                  \cup KindPairInputs \cup TimeInputs
                  \cup TextInputs \cup RawInputs \cup FromRawInputs

NextCodec ==
    \/ PacksPair
    \/ PacksUnpack
    \/ PacksKeylist
    \/ KeyCompare
    \/ KeyConcat
    \/ KeyNextGreater
    \/ PrefixBound
    \/ PacksKinds
    \/ PacksUnpackElement
    \/ UnpackRaw
    \/ KeyLength
    \/ KeyFromRaw
    \/ KeylistFromRaw

SpecCodec == InitCodec /\ [][NextCodec]_vars

----------------------------------------------------------------------------
(* The order of tuples, element by element *)

Sign(n) == IF n < 0 THEN -1 ELSE IF n > 0 THEN 1 ELSE 0

\* The unsigned lexicographic order of two byte strings: -1, 0 or 1
RECURSIVE LexCmp(_, _)
LexCmp(x, y) ==
    IF x = <<>> THEN (IF y = <<>> THEN 0 ELSE -1)
    ELSE IF y = <<>> THEN 1
    ELSE IF Head(x) # Head(y) THEN Sign(Head(x) - Head(y))
    ELSE LexCmp(Tail(x), Tail(y))

\* The order of two elements of the same kind
ElemCmp(x, y) ==
    IF x.t = "null" THEN 0
    ELSE IF x.t = "int" THEN Sign(x.v - y.v)
    ELSE IF x.t = "bool" THEN Sign((IF x.v THEN 1 ELSE 0) - (IF y.v THEN 1 ELSE 0))
    ELSE LexCmp(x.v, y.v)

\* The element-wise order of two tuples, a proper prefix first
RECURSIVE TupleCmp(_, _)
TupleCmp(a, b) ==
    IF a = <<>> THEN (IF b = <<>> THEN 0 ELSE -1)
    ELSE IF b = <<>> THEN 1
    ELSE IF ElemCmp(Head(a), Head(b)) # 0 THEN ElemCmp(Head(a), Head(b))
    ELSE TupleCmp(Tail(a), Tail(b))

----------------------------------------------------------------------------
(* Claims about the codec (SpecCodec) *)

\* C3: for two tuples of integers, booleans and byte strings with the same
\* kinds at the same positions (one may be a proper prefix of the other), the
\* unsigned bytewise order of their encodings is their element-wise order.
C3_EncodingKeepsOrder ==
    (call.op = "packs" /\ call.done) =>
        acid_memcmp(call.res[1], call.res[2]) = TupleCmp(call.a[1], call.b[1])

\* Two negative integers in different varint classes, the smaller one first,
\* the greater one followed by another element, were encoded and compare less.
C3_Witness ==
    /\ call.op = "packs" /\ call.done
    /\ call.a[1] = <<EInt(-241)>>
    /\ call.b[1] = <<EInt(-240), EInt(-1)>>
    /\ acid_memcmp(call.res[1], call.res[2]) = -1

\* C4: decoding the encoding of a tuple that starts with a null, a boolean, an
\* integer (the varint class boundaries and their negations included) or a
\* byte string (empty, with 0x00 and 0xff, 6 to 8 bytes long) gives the tuple
\* back, whether or not further elements follow the first.
C4_RoundTrip ==
    (call.op = "unpack" /\ call.done) =>
        /\ ~call.res.none
        /\ call.res.ok
        /\ call.res.tup = call.a[1]

\* An 8-byte string that ends with 0x00, followed by two elements, was encoded
\* and decoded back.
C4_Witness ==
    /\ call.op = "unpack" /\ call.done
    /\ call.a[1] = <<EBlob(<<255, 255, 255, 255, 255, 255, 255, 0>>),
                     EBlob(<<97>>), ENull>>
    /\ call.res.tup = call.a[1]

\* C8: keylist_from_raw(encode_list(ts)) returns len(ts) Keys, in order, the
\* i-th Key holding exactly the encoding of ts[i], for every list ts, lists
\* with an empty tuple at the first, a middle or the last position included.
C8_KeylistMatchesList ==
    (call.op = "keylist_from_raw" /\ call.done) =>
        /\ ~call.res.none
        /\ call.res.ok
        /\ Len(call.res.out) = Len(call.a)
        /\ \A i \in 1..Len(call.a) : call.res.out[i] = write_tuple(call.a[i])

\* C9: keylist_from_raw on a raw string equal to the prefix returns exactly
\* one Key, the empty tuple, and on a raw string with at least one element
\* after the prefix it returns a list that is not empty.
C9_KeylistOfPrefix ==
    (call.op = "keylist_from_raw" /\ call.done) =>
        /\ call.k = Prefix => call.res.out = <<<<>>>>
        /\ Len(call.k) > Len(Prefix) => call.res.out # <<>>

\* C10: each of the six comparisons of a Key with a tuple gives what the same
\* comparison of the Key with Key(tuple) gives.
C10_CompareTupleAsKey ==
    (call.op \in CompareOps /\ call.done) =>
        call.res = key_richcompare(call.k, [key |-> key_new(call.a[1])], call.op)

\* C11: the bytes of a + b are a's bytes followed by b's bytes, for b a Key,
\* and a's bytes followed by the encoding of b, for b a tuple; both operands
\* are what they were.
C11_ConcatAppends ==
    (call.op \in {"concat_key", "concat_tuple"} /\ call.done) =>
        /\ call.res.out = call.k \o key_new(call.a[1])
        /\ call.res.self = call.k
        /\ call.op = "concat_key" => call.res.other.key = key_new(call.a[1])
        /\ call.op = "concat_tuple" => call.res.other.tup = call.a[1]

AllFF(k) == \A i \in 1..Len(k) : k[i] = 255

IsPrefixOf(k, x) == Len(x) >= Len(k) /\ SubSeq(x, 1, Len(k)) = k

TuplePrefix(p, q) == Len(q) >= Len(p) /\ SubSeq(q, 1, Len(p)) = p

\* C13: for every non-empty tuple p, every tuple that has p as a tuple prefix
\* encodes strictly below prefix_bound(Key(p)), and every tuple that does not
\* start with p encodes below p's encoding or at or above prefix_bound(Key(p)).
C13_PrefixBound ==
    (call.op = "prefix_bound" /\ call.done) =>
        /\ call.res.rc = 0
        /\ \A q \in ProbeTuples :
            IF TuplePrefix(call.a[1], q)
            THEN LexCmp(key_new(q), call.res.out) < 0
            ELSE \/ LexCmp(key_new(q), call.k) < 0
                 \/ LexCmp(key_new(q), call.res.out) >= 0

----------------------------------------------------------------------------
(* The engine *)

\* An item the engine's iterator gives: a (key, value) pair
Item(key) == [pair |-> TRUE, key |-> key]

\* The items of a set in ascending order of their keys
RECURSIVE SortedItems(_)
SortedItems(S) ==
    IF S = {} THEN <<>>
    ELSE LET m == CHOOSE x \in S : \A y \in S : LexCmp(x.key, y.key) <= 0
         IN  <<m>> \o SortedItems(S \ {m})

Reversed(q) == [i \in 1..Len(q) |-> q[Len(q) + 1 - i]]

\* engine.iter(key, reverse): the items from the least key >= key upwards,
\* or from the greatest key <= key downwards
engine_iter(key, reverse) ==
    IF reverse
    THEN Reversed(SelectSeq(records, LAMBDA r : LexCmp(r.key, key) <= 0))
    ELSE SelectSeq(records, LAMBDA r : LexCmp(r.key, key) >= 0)

----------------------------------------------------------------------------
(* RangeIterator *)

\* set_bound(bound, key, pred): the bound afterwards
set_bound(key, pred) == [key |-> key, pred |-> pred]

\* A test_bound that compares the record with the bound
test_bound_swapped(bound, k) ==
    IF bound = <<>> THEN TRUE
    ELSE IF bound[1].key = <<>> THEN TRUE
    ELSE
        LET rc == acid_memcmp(k, bound[1].key[1])
            pred == bound[1].pred
        IN  IF pred = "PRED_LE" THEN rc <= 0
            ELSE IF pred = "PRED_LT" THEN rc < 0
            ELSE IF pred = "PRED_GT" THEN rc > 0
            ELSE IF pred = "PRED_GE" THEN rc >= 0
            ELSE TRUE

\* test_bound(bound, p, len); bound is <<>> (NULL) or <<Bound>>, k the bytes
test_bound(bound, k) ==
    IF bound = <<>> THEN TRUE
    ELSE IF bound[1].key = <<>> THEN TRUE
    ELSE
        LET rc == acid_memcmp(bound[1].key[1], k)
            pred == bound[1].pred
        IN  IF pred = "PRED_LE" THEN rc <= 0
            ELSE IF pred = "PRED_LT" THEN rc < 0
            ELSE IF pred = "PRED_GT" THEN rc > 0
            ELSE IF pred = "PRED_GE" THEN rc >= 0
            ELSE TRUE

\* iter_step on the fields it reads and writes:
\* [rc |-> 0 or -1, it, tup, keys, exc |-> the exception it set or "none"]
iter_step_keeps_keys(it_, pfx, oob) ==
    IF it_ = <<>>
    THEN [rc |-> -1, it |-> <<>>, tup |-> <<>>, keys |-> <<>>, exc |-> "none"]
    ELSE IF it_[1] = <<>>
    THEN [rc |-> -1, it |-> <<>>, tup |-> <<>>, keys |-> <<>>, exc |-> "none"]
    ELSE
        LET item == Head(it_[1])
            rest == <<Tail(it_[1])>>
            fail(e) == [rc |-> -1, it |-> rest, tup |-> <<item>>,
                        keys |-> <<<<item.key>>>>, exc |-> e]
        IN  IF ~item.pair THEN fail("TypeError")
            ELSE IF Len(item.key) < Len(pfx) \/ memcmp(item.key, pfx, Len(pfx)) # 0
            THEN fail("none")
            ELSE
                LET kl == acid_keylist_from_raw(
                              SubSeq(item.key, Len(pfx) + 1, Len(item.key)), oob)
                IN  IF ~kl.ok THEN fail("ValueError")
                    ELSE [rc |-> 0, it |-> rest, tup |-> <<item>>,
                          keys |-> <<kl.out>>, exc |-> "none"]

iter_step(it_, pfx, oob) ==
    IF it_ = <<>>
    THEN [rc |-> -1, it |-> <<>>, tup |-> <<>>, keys |-> <<>>, exc |-> "none"]
    ELSE IF it_[1] = <<>>
    THEN [rc |-> -1, it |-> <<>>, tup |-> <<>>, keys |-> <<>>, exc |-> "none"]
    ELSE
        LET item == Head(it_[1])
            rest == <<Tail(it_[1])>>
            fail(e) == [rc |-> -1, it |-> rest, tup |-> <<item>>,
                        keys |-> <<>>, exc |-> e]
        IN  IF ~item.pair THEN fail("TypeError")
            ELSE IF Len(item.key) < Len(pfx) \/ memcmp(item.key, pfx, Len(pfx)) # 0
            THEN fail("none")
            ELSE
                LET kl == acid_keylist_from_raw(
                              SubSeq(item.key, Len(pfx) + 1, Len(item.key)), oob)
                IN  IF ~kl.ok THEN fail("ValueError")
                    ELSE [rc |-> 0, it |-> rest, tup |-> <<item>>,
                          keys |-> <<kl.out>>, exc |-> "none"]

\* The next iter_step of a loop: an exception an earlier iter_step set stays
\* set, as nothing clears it
sticky_exc(e, n) ==
    IF e # "none" /\ n.exc = "none" THEN [n EXCEPT !.exc = e] ELSE n

step_again(s, pfx, oob) == sticky_exc(s.exc, iter_step(s.it, pfx, oob))

\* The loop of rangeiter_reverse, entered with the fields iter_step left;
\* crashed when PyList_GET_ITEM(keys, 0) reads an empty list
RECURSIVE reverse_loop(_, _, _, _)
reverse_loop(s, hi_, pfx, oob) ==
    IF s.it = <<>> THEN [s EXCEPT !.rc = 0]
    ELSE IF s.keys # <<>> /\ s.keys[1] = <<>> THEN [s EXCEPT !.rc = -2]
    ELSE IF s.keys # <<>> /\ test_bound(<<hi_>>, s.keys[1][1])
    THEN [s EXCEPT !.rc = 0]
    ELSE reverse_loop(step_again(s, pfx, oob), hi_, pfx, oob)

\* The greatest max_ handed to set_max()
MaxMax == 2

\* The keys handed to the setters
BoundTuples == {<<EInt(1)>>, <<EInt(1), EInt(3)>>, <<EInt(2)>>}

BoundArgs == {[ok |-> TRUE, tup |-> t] : t \in BoundTuples}

\* A NULL pointer is dereferenced: the process dies
Crash ==
    /\ pc' = "crashed"
    /\ UNCHANGED <<records, engine, prefix, lo, hi, stop, max, it, tup, started,
                   keys, dir, origin, cfg, yielded, ret, exc, call, svars>>

\* What a setter returns: None, or NULL with the exception acid_make_key set
SetterReturns(ok) ==
    /\ ret' = IF ok THEN "None" ELSE "NULL"
    /\ exc' = IF ok THEN "none" ELSE "TypeError"
    /\ UNCHANGED <<records, engine, prefix, stop, it, tup, started, keys, pc, dir,
                   cfg, yielded, call, svars>>

\* Iterator.set_lo(key, closed)
iter_set_lo ==
    /\ pc = "config"
    /\ \E key_obj \in BoundArgs, closed \in BOOLEAN :
        /\ lo' = set_bound(acid_make_key(key_obj),
                           IF closed THEN "PRED_LE" ELSE "PRED_LT")
        /\ origin' = [origin EXCEPT !.lo = "set_lo"]
        /\ SetterReturns(lo'.key # <<>>)
        /\ UNCHANGED <<hi, max>>

\* Iterator.set_hi(key, closed)
iter_set_hi ==
    /\ pc = "config"
    /\ \E key_obj \in BoundArgs, closed \in BOOLEAN :
        /\ hi' = set_bound(acid_make_key(key_obj),
                           IF closed THEN "PRED_GE" ELSE "PRED_GT")
        /\ origin' = [origin EXCEPT !.hi = "set_hi"]
        /\ SetterReturns(hi'.key # <<>>)
        /\ UNCHANGED <<lo, max>>

\* Iterator.set_prefix(key).  acid_key_next_greater reads its argument
\* unchecked, and hands back None, which is no Key, when there is no greater key.
iter_set_prefix ==
    /\ pc = "config"
    /\ \E key_obj \in BoundArgs :
        LET k == acid_make_key(key_obj)
        IN  IF k = <<>> THEN Crash
            ELSE IF key_next_greater(k[1]) = <<>> THEN Crash
            ELSE
                /\ lo' = set_bound(k, "PRED_GE")
                /\ hi' = set_bound(key_next_greater(k[1]), "PRED_LT")
                /\ origin' = [lo |-> "set_prefix", hi |-> "set_prefix"]
                /\ SetterReturns(TRUE)
                /\ UNCHANGED max

\* A set_exact whose upper bound is open
iter_set_exact_open ==
    /\ pc = "config"
    /\ \E key_obj \in BoundArgs :
        /\ lo' = set_bound(acid_make_key(key_obj), "PRED_LE")
        /\ hi' = set_bound(lo'.key, "PRED_GT")
        /\ origin' = [lo |-> "set_exact", hi |-> "set_exact"]
        /\ SetterReturns(lo'.key # <<>>)
        /\ UNCHANGED max

\* Iterator.set_exact(key)
iter_set_exact ==
    /\ pc = "config"
    /\ \E key_obj \in BoundArgs :
        /\ lo' = set_bound(acid_make_key(key_obj), "PRED_LE")
        /\ hi' = set_bound(lo'.key, "PRED_GE")
        /\ origin' = [lo |-> "set_exact", hi |-> "set_exact"]
        /\ SetterReturns(lo'.key # <<>>)
        /\ UNCHANGED max

\* Iterator.set_max(max_)
iter_set_max ==
    /\ pc = "config"
    /\ \E max_ \in 0..MaxMax :
        /\ max' = max_
        /\ ret' = "None"
        /\ exc' = "none"
        /\ UNCHANGED <<records, engine, prefix, lo, hi, stop, it, tup, started,
                       keys, pc, dir, origin, cfg, yielded, call, svars>>

\* What forward() and reverse() leave when they hand the iterator back
Started(s, stop_, dir_) ==
    /\ it' = s.it
    /\ tup' = s.tup
    /\ keys' = s.keys
    /\ exc' = s.exc
    /\ started' = 0
    /\ stop' = stop_
    /\ ret' = "self"
    /\ pc' = "running"
    /\ dir' = dir_
    /\ cfg' = [lo |-> lo, hi |-> hi, max |-> max, origin |-> origin]
    /\ yielded' = <<>>
    /\ UNCHANGED <<records, engine, prefix, lo, hi, max, origin, call, svars>>

\* RangeIterator.forward()
rangeiter_forward ==
    /\ pc = "config"
    /\ IF prefix = <<>> \/ engine = <<>> THEN Crash
       ELSE \E oob \in OobBytes :
        LET key == IF lo.key # <<>> THEN acid_key_to_raw(lo.key[1], prefix[1])
                   ELSE prefix[1]
            s1 == iter_step(<<engine_iter(key, FALSE)>>, prefix[1], oob)
        IN  IF s1.rc # 0 THEN Started(s1, "hi", "forward")
            ELSE IF s1.keys[1] = <<>> THEN Crash
            ELSE IF ~test_bound(<<lo>>, s1.keys[1][1])
            THEN Started(iter_step(s1.it, prefix[1], oob), "hi", "forward")
            ELSE Started(s1, "hi", "forward")

\* RangeIterator.reverse().  It returns NULL with no exception set when the
\* prefix has no greater string or the engine's iterator gives nothing.
rangeiter_reverse ==
    /\ pc = "config"
    /\ IF prefix = <<>> THEN Crash
       ELSE \E oob \in OobBytes :
        LET key == IF hi.key # <<>> THEN <<acid_key_to_raw(hi.key[1], prefix[1])>>
                   ELSE acid_next_greater_str(prefix[1])
            s1 == iter_step(<<engine_iter(key[1], TRUE)>>, prefix[1], oob)
            s2 == reverse_loop(s1, hi, prefix[1], oob)
            null(it_, tup_, keys_) ==
                /\ it' = it_
                /\ tup' = tup_
                /\ keys' = keys_
                /\ ret' = "NULL"
                /\ pc' = "running"
                /\ dir' = "reverse"
                /\ cfg' = [lo |-> lo, hi |-> hi, max |-> max, origin |-> origin]
                /\ yielded' = <<>>
                /\ UNCHANGED <<records, engine, prefix, lo, hi, stop, max,
                               started, origin, exc, call, svars>>
        IN  IF key = <<>> THEN null(it, tup, keys)
            ELSE IF engine = <<>> THEN Crash
            ELSE IF s1.rc # 0 /\ s1.it = <<>> THEN null(<<>>, <<>>, <<>>)
            ELSE IF s2.rc = -2 THEN Crash
            ELSE Started(s2, "lo", "reverse")

\* A cap tested after the decrement: !--max
max_exhausted_early(max_) == max_ - 1 = 0

\* The cap test of rangeiter_next: !max--
max_exhausted(max_) == max_ = 0

\* RangeIterator.next().  Before forward() or reverse() self->it is NULL: it
\* returns NULL, sets no exception and changes nothing, and the caller may
\* go on configuring.
rangeiter_next ==
    /\ pc \in {"config", "running", "halted"}
    /\ \E oob \in OobBytes :
        LET s == IF started = 0
                 THEN [rc |-> 0, it |-> it, tup |-> tup, keys |-> keys,
                       exc |-> "none"]
                 ELSE iter_step(it, prefix[1], oob)
            bound == IF stop = "lo" THEN <<lo>>
                     ELSE IF stop = "hi" THEN <<hi>> ELSE <<>>
            same == UNCHANGED <<records, dir, origin, cfg, call, svars>>
        IN  IF it = <<>> \/ keys = <<>> THEN
                /\ ret' = "NULL"
                /\ pc' = IF pc = "config" THEN "config" ELSE "halted"
                /\ UNCHANGED <<engine, prefix, lo, hi, stop, max, it, tup,
                               started, keys, yielded, exc>>
                /\ same
            ELSE IF max_exhausted(max) THEN    \* iter_clear
                /\ max' = max - 1
                /\ engine' = <<>> /\ prefix' = <<>>
                /\ lo' = [lo EXCEPT !.key = <<>>]
                /\ hi' = [hi EXCEPT !.key = <<>>]
                /\ it' = <<>> /\ tup' = <<>> /\ keys' = <<>>
                /\ stop' = "none"
                /\ ret' = "NULL" /\ pc' = "halted"
                /\ UNCHANGED <<started, yielded, exc>>
                /\ same
            ELSE IF s.rc # 0 THEN
                /\ max' = max - 1 /\ started' = 1
                /\ it' = s.it /\ tup' = s.tup /\ keys' = s.keys
                /\ exc' = s.exc
                /\ ret' = "NULL" /\ pc' = "halted"
                /\ UNCHANGED <<engine, prefix, lo, hi, stop, yielded>>
                /\ same
            ELSE IF s.keys[1] = <<>> THEN Crash
            ELSE IF ~test_bound(bound, s.keys[1][1]) THEN
                /\ max' = max - 1 /\ started' = 1
                /\ it' = <<>> /\ tup' = <<>> /\ keys' = <<>>
                /\ ret' = "NULL" /\ pc' = "halted"
                /\ UNCHANGED <<engine, prefix, lo, hi, stop, yielded, exc>>
                /\ same
            ELSE
                /\ max' = max - 1 /\ started' = 1
                /\ it' = s.it /\ tup' = s.tup /\ keys' = s.keys
                /\ yielded' = Append(yielded, s.tup[1])
                /\ ret' = "self" /\ pc' = "running"
                /\ UNCHANGED <<engine, prefix, lo, hi, stop, exc>>
                /\ same

----------------------------------------------------------------------------
(* The specification of the iterator *)

\* The tuple lists whose encodings are the records under the prefix: four
\* records of one key, one of them extending another's tuple, and one record
\* of two keys
RecordLists ==
    {<<<<EInt(1)>>>>, <<<<EInt(1), EInt(5)>>>>, <<<<EInt(2)>>>>, <<<<EInt(3)>>>>,
     <<<<EInt(1)>>, <<EInt(0)>>>>}

RecordOf(ts) == Item(py_packs([list |-> TRUE, v |-> ts], Prefix))

\* Records outside the prefix: one below it, one at the next greater string
Outside == {Item(<<64, 21, 1>>), Item(acid_next_greater_str(Prefix)[1])}

\* No logical key is stored in two records
NoKeyTwice(ls) ==
    \A a \in ls, b \in ls :
        a # b => \A i \in 1..Len(a), j \in 1..Len(b) : a[i] # b[j]

Init ==
    /\ \E ls \in SUBSET RecordLists, out \in {{}, Outside} :
        /\ NoKeyTwice(ls)
        /\ records = SortedItems({RecordOf(ts) : ts \in ls} \cup out)
    /\ iter_new(Prefix)
    /\ NoCalls
    /\ NoSharedKeys
    /\ call = NoCall

Next ==
    \/ iter_set_lo
    \/ iter_set_hi
    \/ iter_set_prefix
    \/ iter_set_exact
    \/ iter_set_max
    \/ rangeiter_forward
    \/ rangeiter_reverse
    \/ rangeiter_next

\* An object acid_make_key cannot convert to a Key
UnconvertibleArgs == {[ok |-> FALSE, tup |-> <<>>]}

\* Iterator.set_lo(key, closed) with such an object as key
iter_set_lo_unconvertible ==
    /\ pc = "config"
    /\ \E key_obj \in UnconvertibleArgs, closed \in BOOLEAN :
        /\ lo' = set_bound(acid_make_key(key_obj),
                           IF closed THEN "PRED_LE" ELSE "PRED_LT")
        /\ origin' = [origin EXCEPT !.lo = "set_lo"]
        /\ SetterReturns(lo'.key # <<>>)
        /\ UNCHANGED <<hi, max>>

\* Iterator.set_hi(key, closed) with such an object as key
iter_set_hi_unconvertible ==
    /\ pc = "config"
    /\ \E key_obj \in UnconvertibleArgs, closed \in BOOLEAN :
        /\ hi' = set_bound(acid_make_key(key_obj),
                           IF closed THEN "PRED_GE" ELSE "PRED_GT")
        /\ origin' = [origin EXCEPT !.hi = "set_hi"]
        /\ SetterReturns(hi'.key # <<>>)
        /\ UNCHANGED <<lo, max>>

\* Iterator.set_prefix(key) with such an object as key: acid_key_next_greater
\* reads self->lo.key, which is NULL
iter_set_prefix_unconvertible ==
    /\ pc = "config"
    /\ \E key_obj \in UnconvertibleArgs :
        IF acid_make_key(key_obj) = <<>> THEN Crash
        ELSE
            /\ lo' = set_bound(acid_make_key(key_obj), "PRED_GE")
            /\ hi' = set_bound(key_next_greater(acid_make_key(key_obj)[1]), "PRED_LT")
            /\ origin' = [lo |-> "set_prefix", hi |-> "set_prefix"]
            /\ SetterReturns(TRUE)
            /\ UNCHANGED max

\* Iterator.set_exact(key) with such an object as key
iter_set_exact_unconvertible ==
    /\ pc = "config"
    /\ \E key_obj \in UnconvertibleArgs :
        /\ lo' = set_bound(acid_make_key(key_obj), "PRED_LE")
        /\ hi' = set_bound(lo'.key, "PRED_GE")
        /\ origin' = [lo |-> "set_exact", hi |-> "set_exact"]
        /\ SetterReturns(lo'.key # <<>>)
        /\ UNCHANGED max

\* The records of an engine of at most two records
FewRecordLists == {<<<<EInt(1)>>>>, <<<<EInt(2)>>>>}

InitSetters ==
    /\ \E ls \in SUBSET FewRecordLists :
        records = SortedItems({RecordOf(ts) : ts \in ls})
    /\ iter_new(Prefix)
    /\ NoCalls
    /\ NoSharedKeys
    /\ call = NoCall

NextSetters ==
    \/ Next
    \/ iter_set_lo_unconvertible
    \/ iter_set_hi_unconvertible
    \/ iter_set_prefix_unconvertible
    \/ iter_set_exact_unconvertible

\* The iterator with callers that also hand unconvertible keys to the setters
SpecSetters == InitSetters /\ [][NextSetters]_vars

\* An item of the engine that is no 2-tuple; key is its place in the engine's
\* order, after the record of (1,) and before those of (1, 5), (2,) and (3,)
BadItem == [pair |-> FALSE, key |-> Prefix \o <<KIND_INTEGER, 1, 0>>]

\* An engine that gives BadItem among its records
InitBadEngine ==
    /\ \E ls \in SUBSET RecordLists :
        /\ NoKeyTwice(ls)
        /\ records = SortedItems({RecordOf(ts) : ts \in ls} \cup {BadItem})
    /\ iter_new(Prefix)
    /\ NoCalls
    /\ NoSharedKeys
    /\ call = NoCall

SpecBadEngine == InitBadEngine /\ [][Next]_vars

\* A record whose physical key is the collection prefix and nothing more
PrefixItem == Item(Prefix)

\* An engine that holds PrefixItem among its records
InitPrefixRecord ==
    /\ \E ls \in SUBSET RecordLists :
        /\ NoKeyTwice(ls)
        /\ records = SortedItems({RecordOf(ts) : ts \in ls} \cup {PrefixItem})
    /\ iter_new(Prefix)
    /\ NoCalls
    /\ NoSharedKeys
    /\ call = NoCall

SpecPrefixRecord == InitPrefixRecord /\ [][Next]_vars

\* The functions handed to dispatch() in lst, and the longest lst
Funcs == {"f", "g", "h"}
MaxFuncs == 3

\* PyList_SetSlice(lst, ilow, ihigh, NULL): the list without the items at the
\* (0-based) positions ilow..ihigh-1, both clamped as list_ass_slice clamps them
PyList_DelSlice(l, ilow, ihigh) ==
    LET lo_ == IF ilow < 0 THEN 0 ELSE IF ilow > Len(l) THEN Len(l) ELSE ilow
        hi_ == IF ihigh < lo_ THEN lo_ ELSE IF ihigh > Len(l) THEN Len(l) ELSE ihigh
    IN  SubSeq(l, 1, lo_) \o SubSeq(l, hi_ + 1, Len(l))

\* The for loop of py_dispatch from position i (0-based) down: the list, the
\* functions called so far in order, and the value returned
RECURSIVE dispatch_loop(_, _, _, _, _)
dispatch_loop(l, i, calls, raises, log_fails) ==
    IF i < 0 THEN [lst |-> l, calls |-> calls, ret |-> "None"]
    ELSE LET func == l[i + 1]
         IN  IF func \notin raises
             THEN dispatch_loop(l, i - 1, Append(calls, func), raises, log_fails)
             ELSE IF log_fails
             THEN [lst |-> l, calls |-> Append(calls, func), ret |-> "NULL"]
             ELSE dispatch_loop(PyList_DelSlice(l, i - 1, i), i - 1,
                                Append(calls, func), raises, log_fails)

\* dispatch(lst, *args), where the functions of raises raise when called and
\* log_fails tells whether log_exception raises
py_dispatch(lst, raises, log_fails) ==
    dispatch_loop(lst, Len(lst) - 1, <<>>, raises, log_fails)

\* Lists of distinct functions
FuncLists ==
    {l \in UNION {[1..n -> Funcs] : n \in 0..MaxFuncs} :
        \A i \in 1..Len(l), j \in 1..Len(l) : i # j => l[i] # l[j]}

\* The calls of dispatch(): k is lst, a the functions that raise, b whether
\* log_exception raises
DispatchInputs ==
    {Pending("dispatch", l, r, lf) :
        l \in FuncLists, r \in SUBSET Funcs, lf \in BOOLEAN}

\* acid.core.dispatch(lst, *args)
Dispatch ==
    /\ call.op = "dispatch" /\ ~call.done
    /\ call' = [call EXCEPT !.done = TRUE,
                            !.res = py_dispatch(call.k, call.a, call.b)]
    /\ UNCHANGED <<ivars, svars>>

InitDispatch ==
    /\ records = <<>>
    /\ iter_new(Prefix)
    /\ NoCalls
    /\ NoSharedKeys
    /\ call \in DispatchInputs

NextDispatch == Dispatch

SpecDispatch == InitDispatch /\ [][NextDispatch]_vars

Spec == Init /\ [][Next]_vars

----------------------------------------------------------------------------
(* Claims about the iterator (Spec) *)

StartsWith(s, p) == Len(s) >= Len(p) /\ SubSeq(s, 1, Len(p)) = p

InPrefix(r) == StartsWith(r.key, Prefix)

\* The tuples a record under the prefix was encoded from
ListOf(r) == CHOOSE ts \in RecordLists : RecordOf(ts) = r

\* The first logical key of a record under the prefix
FirstKey(r) == write_tuple(ListOf(r)[1])

\* Every record under the prefix holds exactly one logical key
SingleKeyRecords ==
    \A i \in 1..Len(records) :
        InPrefix(records[i]) => Len(ListOf(records[i])) = 1

\* A lower bound as set_lo() leaves it, and a key that satisfies it
IsLo(b) == b.key = <<>> \/ b.pred \in {"PRED_LE", "PRED_LT"}

SatLo(b, K) ==
    \/ b.key = <<>>
    \/ b.pred = "PRED_LE" /\ LexCmp(b.key[1], K) <= 0
    \/ b.pred = "PRED_LT" /\ LexCmp(b.key[1], K) < 0

\* An upper bound as set_hi() leaves it, and a key that satisfies it
IsHi(b) == b.key = <<>> \/ b.pred \in {"PRED_GE", "PRED_GT"}

SatHi(b, K) ==
    \/ b.key = <<>>
    \/ b.pred = "PRED_GE" /\ LexCmp(K, b.key[1]) <= 0
    \/ b.pred = "PRED_GT" /\ LexCmp(K, b.key[1]) < 0

InRange(r) ==
    InPrefix(r) /\ SatLo(cfg.lo, FirstKey(r)) /\ SatHi(cfg.hi, FirstKey(r))

InRangeRecords == {r \in {records[i] : i \in 1..Len(records)} : InRange(r)}

Yielded == {yielded[i] : i \in 1..Len(yielded)}

Iterating == pc \in {"running", "halted"}

Min(a, b) == IF a < b THEN a ELSE b

\* The yielded records are in range and their first logical keys strictly
\* increase after forward(), strictly decrease after reverse()
OrderedWithinBounds ==
    /\ \A i \in 1..Len(yielded) : InRange(yielded[i])
    /\ \A i \in 1..(Len(yielded) - 1) :
        LET c == LexCmp(FirstKey(yielded[i]), FirstKey(yielded[i + 1]))
        IN  IF dir = "forward" THEN c < 0 ELSE c > 0

\* C1, as stated: with lo and hi set through set_lo/set_hi, over any engine
\* that returns its records in key order, the yielded records' first logical
\* keys are strictly monotonic in the direction chosen, and every yielded
\* record starts with the prefix and satisfies both bounds.
C1_Stated ==
    (Iterating /\ IsLo(cfg.lo) /\ IsHi(cfg.hi)) => OrderedWithinBounds

\* C1, amended: the same, over an engine in which every record under the
\* prefix holds exactly one logical key.
C1_OrderedWithinBounds ==
    (Iterating /\ IsLo(cfg.lo) /\ IsHi(cfg.hi) /\ SingleKeyRecords) =>
        OrderedWithinBounds

\* reverse() with an open lo and a closed hi yielded two single-key records
C1_Witness ==
    /\ dir = "reverse" /\ Len(yielded) = 2
    /\ SingleKeyRecords
    /\ cfg.origin = [lo |-> "set_lo", hi |-> "set_hi"]
    /\ cfg.lo.pred = "PRED_LT" /\ cfg.hi.pred = "PRED_GE"

\* C2, as stated: with no max, when next() reports the end every record
\* under the prefix whose first logical key satisfies lo and hi was yielded.
C2_Stated ==
    (pc = "halted" /\ cfg.max < 0 /\ IsLo(cfg.lo) /\ IsHi(cfg.hi)) =>
        InRangeRecords \subseteq Yielded

\* C2, amended: the same, over an engine in which every record under the
\* prefix holds exactly one logical key.
C2_NoneSkipped ==
    (pc = "halted" /\ cfg.max < 0 /\ IsLo(cfg.lo) /\ IsHi(cfg.hi)
        /\ SingleKeyRecords) =>
        InRangeRecords \subseteq Yielded

\* The engine holds (1,), (2,), (3,); forward() with the open lo (1,) yielded
\* (2,) then (3,) and ended.
C2_Witness ==
    /\ records = <<RecordOf(<<<<EInt(1)>>>>), RecordOf(<<<<EInt(2)>>>>),
                   RecordOf(<<<<EInt(3)>>>>)>>
    /\ cfg.lo = [key |-> <<key_new(<<EInt(1)>>)>>, pred |-> "PRED_LT"]
    /\ cfg.hi.key = <<>> /\ cfg.max < 0
    /\ dir = "forward" /\ pc = "halted"
    /\ yielded = <<RecordOf(<<<<EInt(2)>>>>), RecordOf(<<<<EInt(3)>>>>)>>

\* C5: after set_prefix(k) and forward(), when next() reports the end the
\* yielded records are exactly the records under the collection prefix whose
\* first logical key K has k <= K < next_greater(k).
C5_PrefixRange ==
    (pc = "halted" /\ dir = "forward" /\ cfg.max < 0 /\ SingleKeyRecords
        /\ cfg.origin = [lo |-> "set_prefix", hi |-> "set_prefix"]) =>
        Yielded = {r \in {records[i] : i \in 1..Len(records)} :
                      /\ InPrefix(r)
                      /\ LexCmp(cfg.lo.key[1], FirstKey(r)) <= 0
                      /\ LexCmp(FirstKey(r), key_next_greater(cfg.lo.key[1])[1]) < 0}

\* The records under the prefix whose first logical key is the key of set_exact
ExactRecords ==
    {r \in {records[i] : i \in 1..Len(records)} :
        InPrefix(r) /\ FirstKey(r) = cfg.lo.key[1]}

OnlyAndSomeExact ==
    /\ Yielded \subseteq ExactRecords
    /\ (pc = "halted" /\ cfg.max # 0 /\ ExactRecords # {}) =>
            Yielded \cap ExactRecords # {}

\* C6, as stated: after set_exact(k), forward() or reverse() yields only
\* records whose first logical key equals k, and has yielded one by the end
\* whenever the engine holds one under the prefix.
C6_Stated ==
    (Iterating /\ cfg.origin = [lo |-> "set_exact", hi |-> "set_exact"]) =>
        OnlyAndSomeExact

\* C6, amended: the same, over an engine in which every record under the
\* prefix holds exactly one logical key.
C6_ExactOnly ==
    (Iterating /\ cfg.origin = [lo |-> "set_exact", hi |-> "set_exact"]
        /\ SingleKeyRecords) =>
        OnlyAndSomeExact

\* set_exact((1,)) then reverse() over an engine that holds (1,) and its
\* extension (1,5) yielded the record (1,) and nothing else.
C6_Witness ==
    /\ cfg.origin = [lo |-> "set_exact", hi |-> "set_exact"]
    /\ dir = "reverse" /\ pc = "halted" /\ SingleKeyRecords
    /\ yielded = <<RecordOf(<<<<EInt(1)>>>>)>>
    /\ \E i \in 1..Len(records) : records[i] = RecordOf(<<<<EInt(1), EInt(5)>>>>)

CappedCount ==
    /\ Len(yielded) <= Min(cfg.max, Cardinality(InRangeRecords))
    /\ pc = "halted" => Len(yielded) = Min(cfg.max, Cardinality(InRangeRecords))

\* C7, as stated: after set_max(n), n >= 0, next() never yields more than n
\* records and by the end has yielded min(n, number of in-range records).
C7_Stated ==
    (Iterating /\ cfg.max >= 0 /\ IsLo(cfg.lo) /\ IsHi(cfg.hi)) => CappedCount

\* C7, amended: the same, over an engine in which every record under the
\* prefix holds exactly one logical key.
C7_CappedCount ==
    (Iterating /\ cfg.max >= 0 /\ IsLo(cfg.lo) /\ IsHi(cfg.hi)
        /\ SingleKeyRecords) => CappedCount

\* set_max(2) cut a forward() run over three in-range records after two
C7_Witness ==
    /\ cfg.max = 2 /\ pc = "halted" /\ dir = "forward" /\ SingleKeyRecords
    /\ IsLo(cfg.lo) /\ IsHi(cfg.hi)
    /\ Cardinality(InRangeRecords) = 3
    /\ Len(yielded) = 2

\* The kind of an element: a time is negative when its composite is
KindOf(x) ==
    IF x.t = "int" THEN (IF x.v < 0 THEN "negint" ELSE "posint")
    ELSE IF x.t = "time" THEN (IF x.ms < 0 THEN "negtime" ELSE "postime")
    ELSE x.t

\* The place of a name in a list of distinct names
PlaceIn(order, name) == CHOOSE i \in 1..Len(order) : order[i] = name

StatedKindOrder ==
    <<"null", "negint", "posint", "bool", "blob", "text",
      "negtime", "postime", "uuid">>

CodeKindOrder ==
    <<"null", "negint", "posint", "bool", "blob", "text",
      "uuid", "negtime", "postime">>

\* Of the two elements encoded, the one whose kind comes first in the list
\* has the smaller encoding
SortsInOrder(order) ==
    (call.op = "packs_kinds" /\ call.done) =>
        LET x == call.a[1][1]
            y == call.b[1][1]
        IN  PlaceIn(order, KindOf(x)) < PlaceIn(order, KindOf(y)) =>
                acid_memcmp(call.res[1], call.res[2]) = -1

\* C14 as stated: the encodings of elements of different kinds sort in the
\* order Null < NegInt < PosInt < Bool < Bytes < Text < NegTime < PosTime <
\* Uuid.
C14_Stated == SortsInOrder(StatedKindOrder)

\* C14: the encodings of elements of different kinds sort, by unsigned byte
\* order, in the order Null < NegInt < PosInt < Bool < Bytes < Text < Uuid <
\* NegTime < PosTime.
C14_KindOrder == SortsInOrder(CodeKindOrder)

\* The greatest UUID and the most negative time checked were encoded, and the
\* UUID's encoding is the smaller one.
C14_Witness ==
    /\ call.op = "packs_kinds" /\ call.done
    /\ call.a[1] = <<EUuid([i \in 1..16 |-> 255])>>
    /\ call.b[1] = <<ETime(-100000, 0)>>
    /\ acid_memcmp(call.res[1], call.res[2]) = -1

\* C15: decoding the encoding of a time gives back its count of milliseconds
\* since 1970, negative counts included, and its quantised offset, for every
\* quantised offset in 0..127.
C15_TimeRoundTrip ==
    (call.op = "unpack_time" /\ call.done) =>
        /\ ~call.res.none
        /\ call.res.ok
        /\ call.res.tup = call.a[1]

\* The n low bytes of v, the most significant first
RECURSIVE BigEndian(_, _)
BigEndian(v, n) ==
    IF n = 0 THEN <<>> ELSE BigEndian(v \div 256, n - 1) \o <<v % 256>>

\* The four classes of the bytes that follow an integer's tag, for the
\* absolute value v
VarintClass(v, body) ==
    /\ v <= 240 => body = <<v>>
    /\ (241 <= v /\ v <= 2287) => Len(body) = 2 /\ body[1] \in 241..248
    /\ (2288 <= v /\ v <= 67823) => Len(body) = 3 /\ body[1] = 249
    /\ v > 67823 => \E n \in 3..8 : body = <<250 + (n - 3)>> \o BigEndian(v, n)

TextAPacked ==
    call.op = "unpack_text" /\ call.done /\ call.a[1] = <<EText(<<97>>)>>

\* C17 as stated: the tuple ("a",) encodes as 32 c2 80, and 32 c2 80 decodes
\* to ("a",).
C17_Stated ==
    TextAPacked =>
        /\ call.k = Prefix \o <<50, 194, 128>>
        /\ py_unpack(Prefix \o <<50, 194, 128>>, Prefix).tup = <<EText(<<97>>)>>

\* C17: the tuple ("a",) encodes as the three bytes 32 b0 c0, the Text tag
\* and the 7-bit expansion of 0x61, and these three bytes decode to ("a",).
C17_TextA ==
    TextAPacked =>
        /\ call.k = Prefix \o <<50, 176, 192>>
        /\ ~call.res.none
        /\ call.res.ok
        /\ call.res.tup = <<EText(<<97>>)>>

\* ("a",) was encoded as 32 b0 c0 after the prefix and decoded back.
C17_Witness ==
    /\ TextAPacked
    /\ call.k = Prefix \o <<50, 176, 192>>
    /\ call.res.tup = <<EText(<<97>>)>>

\* C18: on bytes with an unknown kind or an element cut short, decode_tuple
\* and len(k) report an error, and their reader ends at or before the end of
\* the bytes.
C18_MalformedReported ==
    /\ (call.op = "unpack_raw" /\ call.done
            /\ \E m \in MalformedKeys : call.k = Prefix \o m) =>
           (~call.res.ok /\ call.res.p <= Len(call.k))
    /\ (call.op = "length" /\ call.done /\ call.k \in MalformedKeys) =>
           (call.res.ret = -1 /\ call.res.p <= Len(call.k))

\* Key.from_raw, KeyList.from_raw or decode_tuple was called with Prefix
FromRawDone ==
    call.op \in {"unpack_raw", "key_from_raw", "keylist_raw"} /\ call.done

\* C19 as stated: given a raw string that does not start with the prefix,
\* Key.from_raw, KeyList.from_raw and decode_tuple report an error; they
\* return a value only when the prefix matches.
C19_Stated ==
    (FromRawDone /\ ~IsPrefixOf(Prefix, call.k)) => (~call.res.ok /\ ~call.res.none)

\* C19: given a raw string that does not start with the prefix (or is shorter
\* than it), Key.from_raw, KeyList.from_raw and decode_tuple return None and
\* report no error; they return a Key, a list of Keys or a tuple only when the
\* prefix matches.
C19_MismatchGivesNone ==
    FromRawDone =>
        /\ ~IsPrefixOf(Prefix, call.k) => (call.res.none /\ call.res.ok)
        /\ ~call.res.none => IsPrefixOf(Prefix, call.k)

\* Key.from_raw was given a raw string with another first byte than the
\* prefix and returned None.
C19_Witness ==
    /\ call.op = "key_from_raw" /\ call.done
    /\ call.k = <<66, KIND_INTEGER, 1>>
    /\ call.res.none

\* C20: next() on a RangeIterator on which neither forward() nor reverse()
\* has been called reports an InvalidState error.
C20_NextBeforeDirection ==
    [][(pc = "config" /\ rangeiter_next) => exc' = "InvalidState"]_vars

----------------------------------------------------------------------------
(* Claims about an engine that gives an item that is no 2-tuple
   (SpecBadEngine) *)

\* x is an element of the sequence q
InSeq(x, q) == \E i \in 1..Len(q) : q[i] = x

\* forward() or reverse() is called and pulls BadItem: it is among the items
\* the engine iterator gives from the seek key on and not among those the
\* iterator still holds afterwards
StartPullsBad ==
    \/ /\ rangeiter_forward
       /\ prefix # <<>>
       /\ InSeq(BadItem, engine_iter(IF lo.key # <<>>
                                     THEN acid_key_to_raw(lo.key[1], prefix[1])
                                     ELSE prefix[1], FALSE))
       /\ it' = <<>> \/ ~InSeq(BadItem, it'[1])
    \/ /\ rangeiter_reverse
       /\ prefix # <<>>
       /\ InSeq(BadItem, engine_iter(IF hi.key # <<>>
                                     THEN acid_key_to_raw(hi.key[1], prefix[1])
                                     ELSE acid_next_greater_str(prefix[1])[1], TRUE))
       /\ it' = <<>> \/ ~InSeq(BadItem, it'[1])

\* next() is called and pulls BadItem
NextPullsBad ==
    /\ rangeiter_next
    /\ pc # "config"
    /\ it # <<>> /\ keys # <<>> /\ ~max_exhausted(max) /\ started # 0
    /\ it[1] # <<>> /\ Head(it[1]) = BadItem

\* C21: the operation that pulls an item that is no 2-tuple returns NULL with
\* the TypeError set and pulls nothing after that item, and every later next()
\* yields no record and pulls nothing.
C21_BadItemFatal ==
    [][/\ (StartPullsBad \/ NextPullsBad) =>
            (ret' = "NULL" /\ exc' = "TypeError" /\ tup' = <<BadItem>>)
       /\ (tup = <<BadItem>> /\ pc # "config" /\ rangeiter_next) =>
            (ret' = "NULL" /\ yielded' = yielded /\ it' = it)]_vars

----------------------------------------------------------------------------
(* Claims about setters given a key that cannot be converted (SpecSetters) *)

\* A bound setter is called with a key that cannot be converted
SetterFails ==
    \/ iter_set_lo_unconvertible
    \/ iter_set_hi_unconvertible
    \/ iter_set_prefix_unconvertible
    \/ iter_set_exact_unconvertible

\* The bound b2 is the bound b: the same key, and the same predicate where a
\* key is set (the predicate of a bound without a key is never read)
SameBound(b2, b) == b2.key = b.key /\ (b.key # <<>> => b2.pred = b.pred)

\* C22: a bound setter called with a key that cannot be converted to a Key
\* returns NULL with a TypeError set and leaves lo and hi as they were.
C22_FailedSetterKeepsBounds ==
    [][SetterFails =>
        (ret' = "NULL" /\ exc' = "TypeError" /\ SameBound(lo', lo)
           /\ SameBound(hi', hi))]_vars

\* The sinks on the source's list: those reached from the head through next
RECURSIVE ListFrom(_, _, _)
ListFrom(ks, cur, seen) ==
    IF cur \notin KeyAddrs \/ cur \in seen THEN seen
    ELSE ListFrom(ks, InfoPtr(ks[cur], W_NEXT), seen \cup {cur})

Subscribers == ListFrom(skeys, sink_head, {})

\* The Shared Keys subscribed to the source
SharedSubscribers ==
    {a \in Subscribers : skeys[a].st = "live" /\ skeys[a].flags = "KEY_SHARED"}

\* ms_notify() ran and returned
NotifyReturns == ms_notify /\ spc' = "ok"

\* C23: when ms_notify returns, every Shared Key that was subscribed has the
\* length and the bytes it had before, and no longer reads them from the source.
C23_CopyIsIdentical ==
    [][NotifyReturns =>
        \A a \in SharedSubscribers :
            /\ skeys'[a].size = skeys[a].size
            /\ Key_DATA(skeys'[a], gen) = Key_DATA(skeys[a], gen)
            /\ skeys'[a].p # "source"]_vars

\* C24: when ms_notify returns, every sink that was on the list was invalidated
\* exactly once, and the list head references no sink.
C24_ListEmptied ==
    [][NotifyReturns =>
        /\ \A a \in Subscribers : skeys'[a].inv = skeys[a].inv + 1
        /\ sink_head' = 0]_vars

\* C25: once a notification has completed, no live Key is in Shared mode or
\* points into the source's memory.
C25_NoSharedKeyLeft ==
    notified =>
        \A a \in KeyAddrs :
            skeys[a].st = "live" =>
                skeys[a].flags # "KEY_SHARED" /\ skeys[a].p # "source"

\* C26: once next() has returned NULL, a later next() returns NULL again, sets
\* no exception, yields nothing and pulls nothing from the engine iterator.
C26_HaltedStaysHalted ==
    [][(pc = "halted" /\ rangeiter_next) =>
        (ret' = "NULL" /\ pc' = "halted" /\ exc' = exc /\ it' = it
           /\ tup' = tup /\ yielded' = yielded)]_vars

\* next() has returned NULL while the engine iterator is still there to pull from
C26_Witness == pc = "halted" /\ ret = "NULL" /\ it # <<>> /\ keys = <<>>

\* The key reverse() starts the engine's iterator at, as a pointer
ReverseStart ==
    IF hi.key # <<>> THEN <<acid_key_to_raw(hi.key[1], prefix[1])>>
    ELSE acid_next_greater_str(prefix[1])

\* reverse() would find the engine's iterator exhausted at its first pull
ReverseFindsNothing ==
    /\ pc = "config" /\ prefix # <<>> /\ engine # <<>>
    /\ ReverseStart # <<>>
    /\ engine_iter(ReverseStart[1], TRUE) = <<>>

\* C27: reverse() on a range where the engine's iterator is exhausted at the
\* first pull succeeds: it returns the iterator and sets no exception.
C27_EmptyReverseSucceeds ==
    [][(ReverseFindsNothing /\ rangeiter_reverse) =>
        (ret' = "self" /\ exc' = "none")]_vars

\* C28: next() leaves the engine, the collection prefix and the lo and hi
\* bounds as they were configured.
C28_NextKeepsConfiguration ==
    [][rangeiter_next =>
        (engine' = engine /\ prefix' = prefix /\ lo' = lo /\ hi' = hi)]_vars

\* C29: forward(), reverse() and next() of an iterator that has its engine and
\* its prefix never read the first key of an empty key list (the read that
\* ends the process).
C29_KeyListNotEmpty ==
    [][((rangeiter_forward \/ rangeiter_reverse \/ rangeiter_next)
          /\ prefix # <<>> /\ engine # <<>>) => pc' # "crashed"]_vars

\* dispatch() was called and log_exception did not raise
Dispatched == call.op = "dispatch" /\ call.done /\ ~call.b

\* C30: dispatch(lst) calls every function of lst once, from the last to the
\* first, and leaves in lst the functions that did not raise, in their order.
C30_DispatchRemovesRaisers ==
    Dispatched =>
        /\ call.res.calls = Reversed(call.k)
        /\ call.res.lst = SelectSeq(call.k, LAMBDA f : f \notin call.a)
====
